---------------------------- MODULE Spec2Model ----------------------------
(***************************************************************************)
(* A model of github.com/johnsiilver/fs: the in-memory tree store Simple,  *)
(* alone, with concurrent writers and with its lookup table, the waterfall *)
(* cache coordinator cache.FS and the expiring index of the disk cache     *)
(* tier disk.FS.                                                           *)
(*                                                                         *)
(* Go strings are modelled as sequences of one-character strings, so that  *)
(* strings.TrimPrefix, strings.HasSuffix, strings.Split and the byte-wise  *)
(* comparison of names are computed and not assumed.  File contents are    *)
(* opaque values.  Modification times of tree nodes are left out: no       *)
(* operation of the store reads them back.                                 *)
(***************************************************************************)
EXTENDS Integers, Sequences, FiniteSets, TLC

VARIABLES
    simple,     \* the tree store under test: a Simple
    ret,        \* what the last call on the tree store returned
    wrt,        \* per writer goroutine: the WriteFile call it is executing
    writeMu,    \* holder of Simple.writeMu, or 0
    hist,       \* the WriteFile calls in the order they took writeMu
    opt,        \* the options NewSimple was called with to build simple,
                \* and whether an option was applied to simple afterwards
    fast,       \* cache.FS.cache: the fast tier of the coordinator, a Simple
    slow,       \* cache.FS.store: the slow tier, name -> content
    rd,         \* per caller: the coordinator ReadFile call it is executing
    bf,         \* goroutines started by ReadFile that have not returned
    logged,     \* what cache.FS.Log.Printf has been called with
    wr,         \* what the last coordinator WriteFile returned
    opened,     \* the coordinator Open or OpenFile being executed, or
                \* what the last one returned
    expires,    \* disk.FS.expires: the index of expireKey items
    now,        \* the wall clock read by time.Now()
    mu,         \* holder of disk.FS.mu, or "free"
    sweeper,    \* position of the expireLoop goroutine
    pass,       \* what the sweep pass saw and left
    touched,    \* the last touch of the index: the name and the time
    closeCh,    \* disk.FS.closeCh: "nil", "open" or "closed"
    closed,     \* what Close returned, once it has been called
    hnd,        \* per handle: the fs.File a caller holds
    from,       \* the source file system of Merge, a Simple
    osdisk,     \* the files and directories of the operating system
    dfs,        \* the disk.FS: its location and its WriteFile rules
    dcall,      \* the call on the disk.FS being executed, or the last one
    calls,      \* how many calls of each bounded kind have been made
    lan         \* the peer picker: a LAN, and its last setPeers call

treeVars  == <<simple, ret, wrt, writeMu, hist, opt, lan>>
cacheVars == <<fast, slow, rd, bf, logged, wr, opened>>
diskVars  == <<expires, now, mu, sweeper, pass, touched, closeCh, closed>>
fileVars  == <<hnd, from, osdisk, dfs, dcall>>
vars      == <<simple, ret, wrt, writeMu, hist, opt, fast, slow, rd, bf, logged, wr, opened,
               expires, now, mu, sweeper, pass, touched, closeCh, closed,
               hnd, from, osdisk, dfs, dcall, calls, lan>>

---------------------------------------------------------------------------
(* Bounds of the model.                                                    *)

\* successful writes to one tree store
MaxItems == 3
\* coordinator ReadFile and WriteFile calls made in one behaviour
MaxCalls == 4
\* clock ticks in one behaviour
MaxTime == 4
\* touches of the index in one behaviour
MaxTouches == 3
\* WriteFile calls made by the concurrent writers in one behaviour
MaxWrites == 3
\* the largest offset a handle is moved to
MaxOffset == 3
\* free bytes of the buffer io.ReadAll hands to Read
ReadChunk == 2
\* bytes written to one WRFile
MaxBuffer == 2
\* Merge calls made in one behaviour
MaxMerges == 1
\* ReadFile and WriteFile calls made on the disk.FS in one behaviour
MaxDiskCalls == 2
\* peers reported by one discovery
MaxDiscovered == 3
\* clock ticks in one behaviour of the calls on the disk.FS
MaxDiskTime == 1

---------------------------------------------------------------------------
(* Strings.                                                                *)

\* byte value of a character, for Go's byte-wise string comparison
CharCode(c) ==
    CASE c = "." -> 46
      [] c = "/" -> 47
      [] c = "a" -> 97
      [] c = "b" -> 98
      [] c = "c" -> 99

RECURSIVE StrLess(_, _)
\* s < t on Go strings
StrLess(s, t) ==
    IF t = <<>> THEN FALSE
    ELSE IF s = <<>> THEN TRUE
    ELSE IF s[1] = t[1] THEN StrLess(Tail(s), Tail(t))
    ELSE CharCode(s[1]) < CharCode(t[1])

\* s >= t on Go strings
StrGeq(s, t) == ~StrLess(s, t)

\* strings.TrimPrefix(s, c) for a one-character prefix c
TrimPrefix(s, c) == IF Len(s) > 0 /\ s[1] = c THEN Tail(s) ELSE s

\* strings.TrimSuffix(s, c) for a one-character suffix c
TrimSuffix(s, c) ==
    IF Len(s) > 0 /\ s[Len(s)] = c THEN SubSeq(s, 1, Len(s) - 1) ELSE s

\* strings.HasSuffix(s, c) for a one-character suffix c
HasSuffix(s, c) == Len(s) > 0 /\ s[Len(s)] = c

RECURSIVE SplitFrom(_, _)
\* the segments of s with the segment being read, cur, in front
SplitFrom(s, cur) ==
    IF s = <<>> THEN <<cur>>
    ELSE IF s[1] = "/" THEN <<cur>> \o SplitFrom(Tail(s), <<>>)
    ELSE SplitFrom(Tail(s), Append(cur, s[1]))

\* strings.Split(s, "/"): always at least one segment, possibly empty
Split(s) == SplitFrom(s, <<>>)

---------------------------------------------------------------------------
(* Paths: path.Clean, path.Join and path.Base of the standard library, on  *)
(* slash-separated paths.                                                  *)

RECURSIVE CleanElems(_, _, _)
\* the elements path.Clean keeps of segs, after those in out: empty and "."
\* elements go, ".." removes the element before it, and goes itself at the
\* start of a rooted path
CleanElems(segs, rooted, out) ==
    IF segs = <<>> THEN out
    ELSE LET e == segs[1]
         IN  IF e = <<>> \/ e = <<".">>
             THEN CleanElems(Tail(segs), rooted, out)
             ELSE IF e = <<".", ".">>
             THEN IF out # <<>> /\ out[Len(out)] # <<".", ".">>
                  THEN CleanElems(Tail(segs), rooted, SubSeq(out, 1, Len(out) - 1))
                  ELSE IF rooted THEN CleanElems(Tail(segs), rooted, out)
                  ELSE CleanElems(Tail(segs), rooted, Append(out, e))
             ELSE CleanElems(Tail(segs), rooted, Append(out, e))

RECURSIVE JoinElems(_)
\* strings.Join(elems, "/")
JoinElems(elems) ==
    IF elems = <<>> THEN <<>>
    ELSE IF Len(elems) = 1 THEN elems[1]
    ELSE elems[1] \o <<"/">> \o JoinElems(Tail(elems))

\* path.Clean(p)
PathClean(p) ==
    IF p = <<>> THEN <<".">>
    ELSE LET rooted == p[1] = "/"
             out    == JoinElems(CleanElems(Split(p), rooted, <<>>))
         IN  IF rooted THEN <<"/">> \o out
             ELSE IF out = <<>> THEN <<".">> ELSE out

\* path.Join(a, b): empty elements are ignored, the result is cleaned
PathJoin(a, b) ==
    IF a = <<>> /\ b = <<>> THEN <<>>
    ELSE IF a = <<>> THEN PathClean(b)
    ELSE IF b = <<>> THEN PathClean(a)
    ELSE PathClean(a \o <<"/">> \o b)

RECURSIVE StripSlashes(_)
\* p without its trailing slashes
StripSlashes(p) ==
    IF HasSuffix(p, "/") THEN StripSlashes(SubSeq(p, 1, Len(p) - 1)) ELSE p

\* path.Base(p): the last element of p
PathBase(p) ==
    IF p = <<>> THEN <<".">>
    ELSE LET q == StripSlashes(p)
         IN  IF q = <<>> THEN <<"/">>
             ELSE LET sp == Split(q) IN sp[Len(sp)]

---------------------------------------------------------------------------
(* Errors.  Each distinct error value of the source is one string.         *)

Nil              == "nil"
ErrNotExist      == "fs.ErrNotExist"
ErrExist         == "fs.ErrExist"
ErrInvalid       == "fs.ErrInvalid"
ErrLocked        == "Simple is locked from writing"
ErrWriteDir      == "cannot write a file directory"
ErrElemNotDir    == "contains element that is not a directory"
ErrSearchNotDir  == "not a directory"
ErrReadDir       == "cannot read a directory"
Panic            == "panic"
EOF              == "io.EOF"
ErrReadADir      == "cannot Read() a directory"
ErrSeekStart     == "can't seek beyond start of file"
ErrWhence        == "whence value was invalid"
ErrROMode        == "in RO mode!"
ErrOnlySupport   == "only support O_RDONLY and O_WRONLY"
ErrFindNotDir    == "path is not a directory"
ErrBugOpen       == "bug: we just wrote a file and then couldn't open it"
ErrPrepend       == "prepend does not end with '/'"
ErrTransform     == "the FileTransform failed"
ErrWrongType     == "FileMode received wrong type"
ENOENT           == "no such file or directory"
ENOTDIR          == "not a directory (os)"
EISDIR           == "is a directory"
EBADF            == "bad file descriptor"
\* the goroutine stack has grown to its limit: the runtime ends the process
StackOverflow    == "fatal error: stack overflow"

---------------------------------------------------------------------------
(* The tree store: type file.                                              *)

\* a nil *file
NilFile == [nil |-> TRUE]

\* &file{name: n, content: c, time: time.Now()}
NewFile(n, c) ==
    [name |-> n, content |-> c, offset |-> 0, isDir |-> FALSE, objects |-> <<>>]

\* &file{name: n, isDir: true}
NewDir(n) ==
    [name |-> n, content |-> <<>>, offset |-> 0, isDir |-> TRUE, objects |-> <<>>]

RECURSIVE SearchLoop(_, _, _, _)
\* the loop of sort.Search(len(objs), func(i) { objs[i].name >= name }) on
\* the 0-based half-open interval [i, j)
SearchLoop(objs, name, i, j) ==
    IF i < j
    THEN LET h == (i + j) \div 2
         IN  IF ~StrGeq(objs[h + 1].name, name)
             THEN SearchLoop(objs, name, h + 1, j)
             ELSE SearchLoop(objs, name, i, h)
    ELSE i

\* sort.Search: 0-based index of the first object whose name is >= name
SortSearch(objs, name) == SearchLoop(objs, name, 0, Len(objs))

\* file.Search: err and, when err is nil, the 1-based position x of the
\* object found
Search(f, name) ==
    IF ~f.isDir THEN [err |-> ErrSearchNotDir, x |-> 0]
    ELSE IF Len(f.objects) = 0 THEN [err |-> ErrNotExist, x |-> 0]
    ELSE LET x == SortSearch(f.objects, name)
         IN  IF x < Len(f.objects) /\ f.objects[x + 1].name = name
             THEN [err |-> Nil, x |-> x + 1]
             ELSE [err |-> ErrNotExist, x |-> 0]

RECURSIVE InsertByName(_, _)
\* objs, sorted, with e put in front of the first object of a larger name
InsertByName(objs, e) ==
    IF objs = <<>> THEN <<e>>
    ELSE IF StrLess(e.name, objs[1].name) THEN <<e>> \o objs
    ELSE <<objs[1]>> \o InsertByName(Tail(objs), e)

RECURSIVE SortByName(_)
\* sort.Slice(objs, func(i, j) { objs[i].Name() < objs[j].Name() })
SortByName(objs) ==
    IF objs = <<>> THEN <<>>
    ELSE InsertByName(SortByName(SubSeq(objs, 1, Len(objs) - 1)), objs[Len(objs)])

\* file.createDir on a directory f (it panics on a file; every caller passes
\* a directory)
createDir(f, name) ==
    [f EXCEPT !.objects = SortByName(Append(f.objects, NewDir(name)))]

\* file.addFile without the sort.Slice call
addFileUnsorted(f, nf) ==
    [f EXCEPT !.objects = Append(f.objects, nf)]

\* file.addFile on a directory f (it panics on a file; every caller passes a
\* directory)
addFile(f, nf) ==
    [f EXCEPT !.objects = SortByName(Append(f.objects, nf))]

---------------------------------------------------------------------------
(* Pearson hashing.  Simple calls pearson([]byte) but the function is not  *)
(* in the sources at hand; it is an 8-bit Pearson hash, h = T[h XOR c] for *)
(* each byte c, over a permutation T of 0..255.                            *)

RECURSIVE Xor(_, _)
Xor(a, b) ==
    IF a = 0 THEN b
    ELSE IF b = 0 THEN a
    ELSE (((a % 2) + (b % 2)) % 2) + 2 * Xor(a \div 2, b \div 2)

PearsonT(x) == (x * 167 + 13) % 256

RECURSIVE PearsonFrom(_, _)
PearsonFrom(h, bytes) ==
    IF bytes = <<>> THEN h
    ELSE PearsonFrom(PearsonT(Xor(h, CharCode(bytes[1]))), Tail(bytes))

pearson(bytes) == PearsonFrom(0, bytes)

---------------------------------------------------------------------------
(* The tree store: type Simple.                                            *)

\* the SimpleOption that WithPearson() returns, called on s
WithPearson(s) == [s EXCEPT !.pearson = TRUE]

\* NewSimple(options...): the options are not applied, pearson stays false
NewSimple(options) ==
    [root |-> NewDir(<<".">>), ro |-> FALSE, pearson |-> FALSE,
     cache |-> <<>>, items |-> 0]

RECURSIVE OpenWalk(_, _, _)
\* the loop of Simple.Open over the segments sp[i..]
OpenWalk(dir, sp, i) ==
    IF i > Len(sp) THEN [err |-> Nil, file |-> dir]
    ELSE LET r == Search(dir, sp[i])
         IN  IF r.err # Nil THEN [err |-> r.err, file |-> NilFile]
             ELSE OpenWalk(dir.objects[r.x], sp, i + 1)

\* Simple.Open.  The two strings.TrimPrefix calls drop their results, so the
\* name is split as it was passed.
Open(s, name) ==
    IF name = <<"/">> \/ name = <<>> \/ name = <<".">>
    THEN [err |-> Nil, file |-> s.root]
    ELSE LET sp == Split(name)
         IN  IF s.pearson /\ s.ro
             THEN LET i == pearson(name) % (Len(s.cache) + 1)
                  IN  IF i >= Len(s.cache)
                      THEN [err |-> ErrNotExist, file |-> NilFile]
                      ELSE [err |-> Nil, file |-> s.cache[i + 1]]
             ELSE OpenWalk(s.root, sp, 1)

\* Simple.ReadFile: a nil handle returned without an error is dereferenced
ReadFile(s, name) ==
    LET o == Open(s, name)
    IN  IF o.err # Nil THEN [err |-> o.err, b |-> <<>>]
        ELSE IF o.file = NilFile THEN [err |-> Panic, b |-> <<>>]
        ELSE IF o.file.isDir THEN [err |-> ErrReadDir, b |-> <<>>]
        ELSE [err |-> Nil, b |-> o.file.content]

RECURSIVE WriteWalk(_, _, _, _)
\* the body of Simple.WriteFile under writeMu from segment sp[i] on: the
\* directory as the call leaves it, the error returned and whether a file
\* was added.  Directories are created as the loop meets them, before any
\* later segment is looked at.
WriteWalk(dir, sp, i, content) ==
    LET r == Search(dir, sp[i])
    IN  IF i = Len(sp)
        THEN IF r.err = Nil
             THEN [dir |-> dir, err |-> ErrExist, added |-> FALSE]
             ELSE [dir |-> addFile(dir, NewFile(sp[i], content)),
                   err |-> Nil, added |-> TRUE]
        ELSE IF r.err # Nil
        THEN LET d1  == createDir(dir, sp[i])
                 r1  == Search(d1, sp[i])
             IN  IF r1.err # Nil
                 THEN [dir |-> d1, err |-> Panic, added |-> FALSE]
                 ELSE LET sub == WriteWalk(d1.objects[r1.x], sp, i + 1, content)
                      IN  [dir |-> [d1 EXCEPT !.objects[r1.x] = sub.dir],
                           err |-> sub.err, added |-> sub.added]
        ELSE IF ~dir.objects[r.x].isDir
        THEN [dir |-> dir, err |-> ErrElemNotDir, added |-> FALSE]
        ELSE LET sub == WriteWalk(dir.objects[r.x], sp, i + 1, content)
             IN  [dir |-> [dir EXCEPT !.objects[r.x] = sub.dir],
                  err |-> sub.err, added |-> sub.added]

\* Simple.WriteFile without the test of s.ro
WriteFileIgnoresRO(s, name, content) ==
    IF name = <<>> THEN [s |-> s, err |-> Panic]
    ELSE IF HasSuffix(name, "/") THEN [s |-> s, err |-> ErrWriteDir]
    ELSE LET n1 == TrimPrefix(TrimPrefix(name, "."), "/")
             w  == WriteWalk(s.root, Split(n1), 1, content)
         IN  [s   |-> [s EXCEPT !.root = w.dir,
                                !.items = IF w.added THEN @ + 1 ELSE @],
              err |-> w.err]

\* Simple.WriteFile with the test of a name that ends in "/" made after the
\* walk instead of before it
WriteFileLateSuffixTest(s, name, content) ==
    IF s.ro THEN [s |-> s, err |-> ErrLocked]
    ELSE IF name = <<>> THEN [s |-> s, err |-> Panic]
    ELSE LET n1 == TrimPrefix(TrimPrefix(name, "."), "/")
             w  == WriteWalk(s.root, Split(n1), 1, content)
         IN  IF HasSuffix(name, "/")
             THEN [s |-> [s EXCEPT !.root = w.dir], err |-> ErrWriteDir]
             ELSE [s   |-> [s EXCEPT !.root = w.dir,
                                    !.items = IF w.added THEN @ + 1 ELSE @],
                   err |-> w.err]

\* Simple.WriteFile without the test of a name that ends in "/"
WriteFileNoSuffixTest(s, name, content) ==
    IF s.ro THEN [s |-> s, err |-> ErrLocked]
    ELSE IF name = <<>> THEN [s |-> s, err |-> Panic]
    ELSE LET n1 == TrimPrefix(TrimPrefix(name, "."), "/")
             w  == WriteWalk(s.root, Split(n1), 1, content)
         IN  [s   |-> [s EXCEPT !.root = w.dir,
                                !.items = IF w.added THEN @ + 1 ELSE @],
              err |-> w.err]

\* Simple.WriteFile: the store as the call leaves it and the error returned
WriteFile(s, name, content) ==
    IF s.ro THEN [s |-> s, err |-> ErrLocked]
    ELSE IF name = <<>> THEN [s |-> s, err |-> Panic]
    ELSE IF HasSuffix(name, "/") THEN [s |-> s, err |-> ErrWriteDir]
    ELSE LET n1 == TrimPrefix(TrimPrefix(name, "."), "/")
             w  == WriteWalk(s.root, Split(n1), 1, content)
         IN  [s   |-> [s EXCEPT !.root = w.dir,
                                !.items = IF w.added THEN @ + 1 ELSE @],
              err |-> w.err]

\* Simple.ReadDir: err, the objects of the directory found and their names,
\* in order
ReadDir(s, name) ==
    IF name = <<".">> \/ name = <<>> \/ name = <<"/">>
    THEN [err     |-> Nil,
          objects |-> s.root.objects,
          entries |-> [k \in 1..Len(s.root.objects) |-> s.root.objects[k].name]]
    ELSE LET n1 == TrimSuffix(TrimPrefix(TrimPrefix(name, "."), "/"), "/")
             sp == Split(n1)
             RECURSIVE Walk(_, _)
             Walk(dir, i) ==
                 IF i > Len(sp)
                 THEN [err     |-> Nil,
                       objects |-> dir.objects,
                       entries |-> [k \in 1..Len(dir.objects) |-> dir.objects[k].name]]
                 ELSE LET r == Search(dir, sp[i])
                      IN  IF r.err # Nil
                          THEN [err |-> ErrNotExist, objects |-> <<>>, entries |-> <<>>]
                          ELSE IF ~dir.objects[r.x].isDir
                          THEN [err |-> ErrInvalid, objects |-> <<>>, entries |-> <<>>]
                          ELSE Walk(dir.objects[r.x], i + 1)
         IN  Walk(s.root, 1)

RECURSIVE walkDir(_, _, _, _)
\* walkDir of io/fs on the entry d, handed to fn as name, below the
\* directories named in stack: the files handed to fn, in order, each with
\* the path it is handed with.  The entries of a directory are those that
\* s.ReadDir(name) returns for its name, none when ReadDir fails (fn is
\* called once more with the error and returns nil for a directory), and
\* each is walked as path.Join(name, d1.Name()).  What a directory yields
\* depends on its name only, so a name that comes back below itself comes
\* back for ever; the walk is followed for one round more, and overflow
\* says that it does not return unless fn ends it with an error
walkDir(s, name, d, stack) ==
    IF ~d.isDir
    THEN [files |-> <<[path |-> name, file |-> d]>>, overflow |-> FALSE]
    ELSE IF Cardinality({i \in 1..Len(stack) : stack[i] = name}) >= 2
    THEN [files |-> <<>>, overflow |-> TRUE]
    ELSE LET dirs == ReadDir(s, name).objects
             RECURSIVE Each(_)
             Each(k) ==
                 IF k > Len(dirs) THEN [files |-> <<>>, overflow |-> FALSE]
                 ELSE LET w == walkDir(s, PathJoin(name, dirs[k].name),
                                       dirs[k], Append(stack, name))
                      IN  IF w.overflow THEN w
                          ELSE LET r == Each(k + 1)
                               IN  [files    |-> w.files \o r.files,
                                    overflow |-> r.overflow]
         IN  Each(1)

\* fs.WalkDir(s, ".", fn): Stat of "." is the root
WalkFiles(s) == walkDir(s, <<".">>, s.root, <<>>)

RECURSIVE FillTable(_, _, _)
\* sl after the callback of RO has run on files[k..], and whether sl[i]
\* panicked with an index out of range; slot i is
\* pearson(path) % (len(s.cache) + 1) with s.cache as it was before RO
FillTable(sl, files, n) ==
    IF files = <<>> THEN [sl |-> sl, panic |-> FALSE]
    ELSE LET i == pearson(files[1].path) % (n + 1)
         IN  IF i >= Len(sl) THEN [sl |-> sl, panic |-> TRUE]
             ELSE FillTable([sl EXCEPT ![i + 1] = files[1].file], Tail(files), n)

\* sl as the walk of RO leaves it
ROTable(s) ==
    FillTable([k \in 1..s.items |-> NilFile], WalkFiles(s).files,
              Len(s.cache))

\* whether RO panics
ROPanics(s) == s.pearson /\ ROTable(s).panic

\* whether the walk of RO never returns
ROOverflows(s) == s.pearson /\ ~ROTable(s).panic /\ WalkFiles(s).overflow

\* Simple.RO: the store as the call leaves it; s.cache is assigned when the
\* walk has returned
RO(s) ==
    IF s.pearson
    THEN [s EXCEPT !.ro = TRUE,
                   !.cache = IF ROTable(s).panic \/ WalkFiles(s).overflow
                             THEN @ ELSE ROTable(s).sl]
    ELSE [s EXCEPT !.ro = TRUE]

---------------------------------------------------------------------------
(* The tree store as a state machine: one caller at a time calls           *)
(* WriteFile, ReadFile, ReadDir and RO on a store built by NewSimple.      *)

\* the path strings callers pass: "", "a", "b", "/a", ".a", "a/b", "/a/b",
\* "/a/b/c", "a/", "." and "c"
TreePaths ==
    { <<>>, <<"a">>, <<"b">>, <<"/", "a">>, <<".", "a">>,
      <<"a", "/", "b">>, <<"/", "a", "/", "b">>,
      <<"/", "a", "/", "b", "/", "c">>, <<"a", "/">>, <<".">>, <<"c">> }

\* the contents callers write: the bytes of "X" and of "Y"
Contents == {<<88>>, <<89>>}

\* of a result, h is the handle the call was made on or returned, args the
\* arguments that are not a name or a content, n the count or the offset
\* returned and fi the fs.FileInfo returned
NoRet ==
    [op |-> "none", name |-> <<>>, content |-> <<>>, err |-> Nil, b |-> <<>>,
     entries |-> <<>>, h |-> 0, args |-> <<>>, n |-> 0, fi |-> [name |-> <<>>, size |-> 0, isDir |-> FALSE]]

\* the goroutines that call WriteFile concurrently
Writers == {1, 2}

\* a writer that has not called WriteFile yet; of a call, name and content
\* are its arguments, sp the segments of the trimmed name, k its place in
\* the order of the calls that took writeMu, err what it returned and
\* overlap whether another call was running when it was made
IdleWriter ==
    [pc |-> "idle", name |-> <<>>, content |-> <<>>, sp |-> <<>>, k |-> 0,
     err |-> Nil, overlap |-> FALSE]

TreeInit ==
    /\ simple = NewSimple(<<>>)
    /\ ret = NoRet
    /\ wrt = [w \in Writers |-> IdleWriter]
    /\ writeMu = 0
    /\ hist = <<>>
    /\ opt = [requested |-> <<>>, applied |-> FALSE]

\* the runtime has ended the process: a goroutine's stack reached its limit
\* ("fatal error: stack overflow"), which no recover() stops, and no call
\* is made after it
Exited == ret.err = StackOverflow

\* s.WriteFile(p, c); a panic is taken to be recovered by the caller
DoWriteFile(p, c) ==
    LET w == WriteFile(simple, p, c)
    IN  /\ ~Exited
        /\ w.s.items <= MaxItems
        /\ simple' = w.s
        /\ ret' = [NoRet EXCEPT !.op = "WriteFile", !.name = p,
                                !.content = c, !.err = w.err]
        /\ UNCHANGED <<wrt, writeMu, hist, opt, lan>>
        /\ UNCHANGED <<cacheVars, diskVars, calls, fileVars>>

\* s.ReadFile(p)
DoReadFile(p) ==
    LET r == ReadFile(simple, p)
    IN  /\ ~Exited
        /\ simple' = simple
        /\ ret' = [NoRet EXCEPT !.op = "ReadFile", !.name = p,
                                !.err = r.err, !.b = r.b]
        /\ UNCHANGED <<wrt, writeMu, hist, opt, lan>>
        /\ UNCHANGED <<cacheVars, diskVars, calls, fileVars>>

\* s.ReadDir(p)
DoReadDir(p) ==
    LET r == ReadDir(simple, p)
    IN  /\ ~Exited
        /\ simple' = simple
        /\ ret' = [NoRet EXCEPT !.op = "ReadDir", !.name = p,
                                !.err = r.err, !.entries = r.entries]
        /\ UNCHANGED <<wrt, writeMu, hist, opt, lan>>
        /\ UNCHANGED <<cacheVars, diskVars, calls, fileVars>>

\* s.RO(); a panic is taken to be recovered by the caller, and a stack
\* overflow of the walk ends the process with s.ro set
DoRO ==
    /\ ~Exited
    /\ simple' = RO(simple)
    /\ ret' = [NoRet EXCEPT !.op = "RO",
                            !.err = IF ROPanics(simple) THEN Panic
                                    ELSE IF ROOverflows(simple)
                                    THEN StackOverflow ELSE Nil]
    /\ UNCHANGED <<wrt, writeMu, hist, opt, lan>>
    /\ UNCHANGED <<cacheVars, diskVars, calls, fileVars>>

TreeNext ==
    \/ \E p \in TreePaths, c \in Contents : DoWriteFile(p, c)
    \/ \E p \in TreePaths : DoReadFile(p)
    \/ \E p \in TreePaths : DoReadDir(p)
    \/ DoRO

---------------------------------------------------------------------------
(* The tree store with the lookup table.  The store is built by NewSimple  *)
(* with or without WithPearson(); the option can also be called on a store *)
(* that has been built.                                                    *)

\* the option lists passed to NewSimple: none and WithPearson()
OptionLists == { <<>>, <<"WithPearson">> }

\* the path strings written and read: "a", "b", "c/a", and "//a" and "/.b/a",
\* whose directories ReadDir does not find again under the name WriteFile
\* gave them
PearsonPaths ==
    { <<"a">>, <<"b">>, <<"c", "/", "a">>, <<"/", "/", "a">>,
      <<"/", ".", "b", "/", "a">> }

\* s := NewSimple(options...)
PearsonTreeInit ==
    \E o \in OptionLists :
        /\ simple = NewSimple(o)
        /\ opt = [requested |-> o, applied |-> FALSE]
        /\ ret = NoRet
        /\ wrt = [w \in Writers |-> IdleWriter]
        /\ writeMu = 0
        /\ hist = <<>>

\* WithPearson()(s)
DoWithPearson ==
    /\ ~Exited
    /\ ~opt.applied
    /\ simple' = WithPearson(simple)
    /\ opt' = [opt EXCEPT !.applied = TRUE]
    /\ lan' = lan
    /\ ret' = [NoRet EXCEPT !.op = "WithPearson"]
    /\ UNCHANGED <<wrt, writeMu, hist>>
    /\ UNCHANGED <<cacheVars, diskVars, calls, fileVars>>

PearsonNext ==
    \/ DoWithPearson
    \/ \E p \in PearsonPaths, c \in Contents : DoWriteFile(p, c)
    \/ \E p \in PearsonPaths : DoReadFile(p)
    \/ DoRO

---------------------------------------------------------------------------
(* Concurrent writers of one tree store.  WriteFile tests s.ro and its     *)
(* argument and trims the name before it takes writeMu; under writeMu it   *)
(* walks and creates the directories and searches the last directory for   *)
(* the name, and then adds the file and counts it.  RO sets s.ro without   *)
(* taking writeMu.  A writer keeps its directory as the path to it.        *)

\* the path strings the writers pass: "a", "/a", "a/b", "b" and "a/"
WriterPaths ==
    { <<"a">>, <<"/", "a">>, <<"a", "/", "b">>, <<"b">>, <<"a", "/">> }

RECURSIVE WriteDirs(_, _, _)
\* Simple.WriteFile from segment sp[i] on up to the Search of the last
\* segment: the directory as the loop leaves it and the error the call
\* returns before it adds the file, or nil
WriteDirs(dir, sp, i) ==
    LET r == Search(dir, sp[i])
    IN  IF i = Len(sp)
        THEN [dir |-> dir, err |-> IF r.err = Nil THEN ErrExist ELSE Nil]
        ELSE IF r.err # Nil
        THEN LET d1  == createDir(dir, sp[i])
                 r1  == Search(d1, sp[i])
             IN  IF r1.err # Nil
                 THEN [dir |-> d1, err |-> Panic]
                 ELSE LET sub == WriteDirs(d1.objects[r1.x], sp, i + 1)
                      IN  [dir |-> [d1 EXCEPT !.objects[r1.x] = sub.dir],
                           err |-> sub.err]
        ELSE IF ~dir.objects[r.x].isDir
        THEN [dir |-> dir, err |-> ErrElemNotDir]
        ELSE LET sub == WriteDirs(dir.objects[r.x], sp, i + 1)
             IN  [dir |-> [dir EXCEPT !.objects[r.x] = sub.dir], err |-> sub.err]

RECURSIVE AddAt(_, _, _, _)
\* dir.addFile(nf) on the directory the writer holds, the one reached from
\* dir along sp[i..Len(sp) - 1]
AddAt(dir, sp, i, nf) ==
    IF i = Len(sp) THEN addFile(dir, nf)
    ELSE LET r == Search(dir, sp[i])
         IN  [dir EXCEPT !.objects[r.x] = AddAt(dir.objects[r.x], sp, i + 1, nf)]

\* Simple.WriteFile up to s.writeMu.Lock(): the tests of s.ro and of the
\* name, and the trimming
WriteStart(w, p, c) ==
    LET err == IF simple.ro THEN ErrLocked
               ELSE IF p = <<>> THEN Panic
               ELSE IF HasSuffix(p, "/") THEN ErrWriteDir
               ELSE Nil
        busy == \E v \in Writers \ {w} : wrt[v].pc \in {"lock", "walk", "add"}
    IN  /\ wrt[w].pc \in {"idle", "done"}
        /\ calls.starts < MaxWrites
        /\ calls' = [calls EXCEPT !.starts = @ + 1]
        /\ wrt' = [wrt EXCEPT ![w] =
                     IF err # Nil
                     THEN [IdleWriter EXCEPT !.pc = "done", !.name = p,
                                             !.content = c, !.err = err,
                                             !.overlap = busy]
                     ELSE [IdleWriter EXCEPT !.pc = "lock", !.name = p,
                                             !.content = c, !.overlap = busy,
                                             !.sp = Split(TrimPrefix(TrimPrefix(p, "."), "/"))]]
        /\ UNCHANGED <<simple, ret, writeMu, hist, opt, lan>>
        /\ UNCHANGED <<cacheVars, diskVars, fileVars>>

\* s.writeMu.Lock() that does not wait for the mutex to be free
WriteLockNoWait(w) ==
    /\ wrt[w].pc = "lock"
    /\ writeMu' = w
    /\ hist' = Append(hist, [name |-> wrt[w].name, content |-> wrt[w].content,
                             err |-> "pending"])
    /\ wrt' = [wrt EXCEPT ![w].pc = "walk", ![w].k = Len(hist) + 1]
    /\ UNCHANGED <<simple, ret, opt, lan, calls>>
    /\ UNCHANGED <<cacheVars, diskVars, fileVars>>

\* s.writeMu.Lock()
WriteLock(w) ==
    /\ wrt[w].pc = "lock"
    /\ writeMu = 0
    /\ writeMu' = w
    /\ hist' = Append(hist, [name |-> wrt[w].name, content |-> wrt[w].content,
                             err |-> "pending"])
    /\ wrt' = [wrt EXCEPT ![w].pc = "walk", ![w].k = Len(hist) + 1]
    /\ UNCHANGED <<simple, ret, opt, lan, calls>>
    /\ UNCHANGED <<cacheVars, diskVars, fileVars>>

\* Simple.WriteFile under writeMu: the loop over the directories and the
\* Search of the last segment; a return runs the deferred Unlock
WriteWalkDirs(w) ==
    LET r == WriteDirs(simple.root, wrt[w].sp, 1)
    IN  /\ wrt[w].pc = "walk"
        /\ simple' = [simple EXCEPT !.root = r.dir]
        /\ IF r.err # Nil
           THEN /\ wrt' = [wrt EXCEPT ![w].pc = "done", ![w].err = r.err]
                /\ hist' = [hist EXCEPT ![wrt[w].k].err = r.err]
                /\ writeMu' = 0
           ELSE /\ wrt' = [wrt EXCEPT ![w].pc = "add"]
                /\ UNCHANGED <<hist, writeMu>>
        /\ UNCHANGED <<ret, opt, lan, calls>>
        /\ UNCHANGED <<cacheVars, diskVars, fileVars>>

\* Simple.WriteFile under writeMu: dir.addFile, s.items++, return nil and
\* the deferred Unlock
WriteAddFile(w) ==
    /\ wrt[w].pc = "add"
    /\ simple' = [simple EXCEPT
                    !.root = AddAt(simple.root, wrt[w].sp, 1,
                                   NewFile(wrt[w].sp[Len(wrt[w].sp)], wrt[w].content)),
                    !.items = @ + 1]
    /\ wrt' = [wrt EXCEPT ![w].pc = "done", ![w].err = Nil]
    /\ hist' = [hist EXCEPT ![wrt[w].k].err = Nil]
    /\ writeMu' = 0
    /\ UNCHANGED <<ret, opt, lan, calls>>
    /\ UNCHANGED <<cacheVars, diskVars, fileVars>>

WritersNext ==
    \/ \E w \in Writers, p \in WriterPaths, c \in Contents : WriteStart(w, p, c)
    \/ \E w \in Writers : WriteLock(w)
    \/ \E w \in Writers : WriteWalkDirs(w)
    \/ \E w \in Writers : WriteAddFile(w)
    \/ DoRO

---------------------------------------------------------------------------
(* The cache coordinator cache.FS over two tiers.  The fast tier            *)
(* (cache.FS.cache) is a Simple built by NewSimple.  The slow tier          *)
(* (cache.FS.store) is any CacheFS: it is taken to be a store of blobs      *)
(* keyed by the exact name string, whose WriteFile overwrites and may fail. *)
(* Every call on a tier is one step, but the WriteFile of the fast tier     *)
(* that a goroutine makes: it is two steps, as for the concurrent writers.  *)

\* the goroutines that call the coordinator's ReadFile
Callers == {1, 2}

\* the name strings callers pass: "a", "/a" and "a/b"
CacheNames == { <<"a">>, <<"/", "a">>, <<"a", "/", "b">> }

\* no blob under a name of the slow tier
NoBlob == "none"

\* errors of the slow tier
ErrStoreNotExist == "store: file does not exist"
ErrStoreWrite    == "store: write failed"

\* store.ReadFile(name)
StoreReadFile(st, name) ==
    IF st[name] = NoBlob THEN [err |-> ErrStoreNotExist, b |-> <<>>]
    ELSE [err |-> Nil, b |-> st[name]]

\* store.WriteFile(name, content, perm), which works when ok
StoreWriteFile(st, name, content, ok) ==
    IF ok THEN [st |-> [st EXCEPT ![name] = content], err |-> Nil]
    ELSE [st |-> st, err |-> ErrStoreWrite]

\* a caller that has not called ReadFile yet; of a call, call is its
\* number, name its argument, writes the number of WriteFile calls that had
\* returned when it was made, fastErr, storeErr and storeB what the tiers
\* returned to it, b and err what it returned and go whether it started a
\* goroutine
IdleCall ==
    [pc |-> "idle", call |-> 0, name |-> <<>>, writes |-> 0, fastErr |-> Nil,
     storeErr |-> Nil, storeB |-> <<>>, b |-> <<>>, err |-> Nil, go |-> FALSE]

\* no call made yet
NoCalls == [reads |-> 0, writes |-> 0, touches |-> 0, starts |-> 0, merges |-> 0]

\* no coordinator WriteFile has returned yet
NoWrite == [name |-> <<>>, content |-> <<>>, storeErr |-> Nil, err |-> Nil]

\* no coordinator Open or OpenFile has returned yet
NoOpen ==
    [call |-> "none", pc |-> "done", name |-> <<>>, flags |-> 0, err |-> Nil,
     file |-> NilFile]

CacheInit ==
    /\ fast = NewSimple(<<>>)
    /\ slow = [n \in CacheNames |-> NoBlob]
    /\ rd = [p \in Callers |-> IdleCall]
    /\ bf = {}
    /\ logged = {}
    /\ wr = NoWrite
    /\ opened = NoOpen

\* cache.FS.ReadFile up to its first return: caller p calls ReadFile(n),
\* which reads the cache and returns what it holds
ReadFileCache(p, n) ==
    LET r == ReadFile(fast, n)
    IN  /\ rd[p].pc \in {"idle", "done"}
        /\ calls.reads + calls.writes < MaxCalls
        /\ calls' = [calls EXCEPT !.reads = @ + 1]
        /\ rd' = [rd EXCEPT ![p] =
                    IF r.err = Nil
                    THEN [IdleCall EXCEPT !.pc = "done", !.name = n,
                                          !.call = calls.reads + 1,
                                          !.writes = calls.writes, !.b = r.b]
                    ELSE [IdleCall EXCEPT !.pc = "miss", !.name = n,
                                          !.call = calls.reads + 1,
                                          !.writes = calls.writes,
                                          !.fastErr = r.err]]
        /\ UNCHANGED <<fast, slow, bf, logged, wr>>
        /\ UNCHANGED <<treeVars, diskVars, opened, fileVars>>

\* cache.FS.ReadFile after a miss, returning the error of the cache when the
\* store fails
ReadFileStoreCacheErr(p) ==
    LET r == StoreReadFile(slow, rd[p].name)
    IN  /\ rd[p].pc = "miss"
        /\ IF r.err # Nil
           THEN /\ rd' = [rd EXCEPT ![p].pc = "done", ![p].storeErr = r.err,
                                    ![p].b = r.b, ![p].err = rd[p].fastErr]
                /\ bf' = bf
           ELSE /\ rd' = [rd EXCEPT ![p].pc = "done", ![p].storeB = r.b,
                                    ![p].b = r.b, ![p].go = TRUE]
                /\ bf' = bf \cup {[id |-> rd[p].call, name |-> rd[p].name, b |-> r.b, pc |-> "go"]}
        /\ UNCHANGED <<fast, slow, logged, wr, calls>>
        /\ UNCHANGED <<treeVars, diskVars, opened, fileVars>>

\* cache.FS.ReadFile after a miss, writing to the cache before it returns
\* instead of in a goroutine
ReadFileStoreSync(p) ==
    LET r == StoreReadFile(slow, rd[p].name)
        w == WriteFile(fast, rd[p].name, r.b)
    IN  /\ rd[p].pc = "miss"
        /\ IF r.err # Nil
           THEN /\ rd' = [rd EXCEPT ![p].pc = "done", ![p].storeErr = r.err,
                                    ![p].b = r.b, ![p].err = r.err]
                /\ UNCHANGED <<fast, logged>>
           ELSE /\ rd' = [rd EXCEPT ![p].pc = "done", ![p].storeB = r.b,
                                    ![p].b = r.b, ![p].go = TRUE]
                /\ fast' = w.s
                /\ logged' = IF w.err # Nil
                             THEN logged \cup {[name |-> rd[p].name, err |-> w.err]}
                             ELSE logged
        /\ UNCHANGED <<slow, bf, wr, calls>>
        /\ UNCHANGED <<treeVars, diskVars, opened, fileVars>>

\* cache.FS.ReadFile after a miss: read the store, and when it has the file
\* start the goroutine that writes it to the cache, and return
ReadFileStore(p) ==
    LET r == StoreReadFile(slow, rd[p].name)
    IN  /\ rd[p].pc = "miss"
        /\ IF r.err # Nil
           THEN /\ rd' = [rd EXCEPT ![p].pc = "done", ![p].storeErr = r.err,
                                    ![p].b = r.b, ![p].err = r.err]
                /\ bf' = bf
           ELSE /\ rd' = [rd EXCEPT ![p].pc = "done", ![p].storeB = r.b,
                                    ![p].b = r.b, ![p].go = TRUE]
                /\ bf' = bf \cup {[id |-> rd[p].call, name |-> rd[p].name, b |-> r.b, pc |-> "go"]}
        /\ UNCHANGED <<fast, slow, logged, wr, calls>>
        /\ UNCHANGED <<treeVars, diskVars, opened, fileVars>>

\* the goroutine started by ReadFile, f.cache.WriteFile up to the Search of
\* the last segment: the tests of s.ro and of the name, s.writeMu.Lock()
\* once no other goroutine holds the mutex, and the loop over the
\* directories; an error is logged and ends the goroutine
BackfillWalkDirs(g) ==
    LET err0 == IF fast.ro THEN ErrLocked
                ELSE IF g.name = <<>> THEN Panic
                ELSE IF HasSuffix(g.name, "/") THEN ErrWriteDir
                ELSE Nil
        sp   == Split(TrimPrefix(TrimPrefix(g.name, "."), "/"))
        r    == WriteDirs(fast.root, sp, 1)
        err  == IF err0 # Nil THEN err0 ELSE r.err
    IN  /\ g \in bf
        /\ g.pc = "go"
        /\ err0 = Nil => \A h \in bf : h.pc # "add"
        /\ fast' = IF err0 # Nil THEN fast ELSE [fast EXCEPT !.root = r.dir]
        /\ bf' = IF err # Nil THEN bf \ {g}
                 ELSE (bf \ {g}) \cup {[g EXCEPT !.pc = "add"]}
        /\ logged' = IF err # Nil
                     THEN logged \cup {[name |-> g.name, err |-> err]}
                     ELSE logged
        /\ UNCHANGED <<slow, rd, wr, calls>>
        /\ UNCHANGED <<treeVars, diskVars, opened, fileVars>>

\* the goroutine started by ReadFile, the rest of f.cache.WriteFile:
\* dir.addFile, s.items++, return nil and the deferred Unlock
BackfillAddFile(g) ==
    LET sp == Split(TrimPrefix(TrimPrefix(g.name, "."), "/"))
    IN  /\ g \in bf
        /\ g.pc = "add"
        /\ fast' = [fast EXCEPT
                      !.root = AddAt(fast.root, sp, 1, NewFile(sp[Len(sp)], g.b)),
                      !.items = @ + 1]
        /\ bf' = bf \ {g}
        /\ UNCHANGED <<slow, rd, logged, wr, calls>>
        /\ UNCHANGED <<treeVars, diskVars, opened, fileVars>>

\* cache.FS.WriteFile writing to the cache as well as to the store
CoordWriteFileThrough(n, c, ok) ==
    LET w == StoreWriteFile(slow, n, c, ok)
    IN  /\ calls.reads + calls.writes < MaxCalls
        /\ calls' = [calls EXCEPT !.writes = @ + 1]
        /\ slow' = w.st
        /\ fast' = WriteFile(fast, n, c).s
        /\ wr' = [name |-> n, content |-> c, storeErr |-> w.err, err |-> w.err]
        /\ UNCHANGED <<rd, bf, logged>>
        /\ UNCHANGED <<treeVars, diskVars, opened, fileVars>>

\* cache.FS.WriteFile(n, c, perm)
CoordWriteFile(n, c, ok) ==
    LET w == StoreWriteFile(slow, n, c, ok)
    IN  /\ calls.reads + calls.writes < MaxCalls
        /\ calls' = [calls EXCEPT !.writes = @ + 1]
        /\ slow' = w.st
        /\ wr' = [name |-> n, content |-> c, storeErr |-> w.err, err |-> w.err]
        /\ UNCHANGED <<fast, rd, bf, logged>>
        /\ UNCHANGED <<treeVars, diskVars, opened, fileVars>>

CacheNext ==
    \/ \E p \in Callers, n \in CacheNames : ReadFileCache(p, n)
    \/ \E p \in Callers : ReadFileStore(p)
    \/ \E g \in bf : BackfillWalkDirs(g)
    \/ \E g \in bf : BackfillAddFile(g)
    \/ \E n \in CacheNames, c \in Contents, ok \in BOOLEAN : CoordWriteFile(n, c, ok)

---------------------------------------------------------------------------
(* Open and OpenFile of the coordinator.  A handle of the fast tier is the  *)
(* *file of the tree; a handle of the slow tier is a value of its own that  *)
(* names the tier, the file and the flags it was opened with.               *)

\* os.O_RDONLY, os.O_WRONLY and os.O_CREATE
O_RDONLY == 0
O_WRONLY == 1
O_CREATE == 64

\* the flags callers pass: O_RDONLY, O_WRONLY and O_WRONLY|O_CREATE
OpenFlags == {O_RDONLY, O_WRONLY, O_WRONLY + O_CREATE}

RECURSIVE BitAnd(_, _)
\* a & b on non-negative integers
BitAnd(a, b) ==
    IF a = 0 \/ b = 0 THEN 0
    ELSE ((a % 2) * (b % 2)) + 2 * BitAnd(a \div 2, b \div 2)

\* isFlagSet(flags, flag)
isFlagSet(flags, flag) == BitAnd(flags, flag) # 0

\* the handle the slow tier returns for name opened with flags
StoreHandle(st, name, flags) ==
    [tier |-> "store", name |-> name, flags |-> flags,
     b |-> IF st[name] = NoBlob THEN <<>> ELSE st[name]]

\* store.Open(name)
StoreOpen(st, name) ==
    IF st[name] = NoBlob THEN [err |-> ErrStoreNotExist, file |-> NilFile]
    ELSE [err |-> Nil, file |-> StoreHandle(st, name, O_RDONLY)]

\* store.OpenFile(name, flags, options...): a file that does not exist is
\* opened only with O_CREATE
StoreOpenFile(st, name, flags) ==
    IF st[name] = NoBlob /\ ~isFlagSet(flags, O_CREATE)
    THEN [err |-> ErrStoreNotExist, file |-> NilFile]
    ELSE [err |-> Nil, file |-> StoreHandle(st, name, flags)]

\* cache.FS.Open(n) up to its first return, made as call: f.cache.Open(n),
\* whose file is returned; after an error the call goes on to the store
OpenCache(call, n, flags) ==
    LET o == Open(fast, n)
    IN  /\ opened.pc = "done"
        /\ opened' = IF o.err = Nil
                     THEN [call |-> call, pc |-> "done", name |-> n,
                           flags |-> flags, err |-> Nil, file |-> o.file]
                     ELSE [call |-> call, pc |-> "store", name |-> n,
                           flags |-> flags, err |-> Nil, file |-> NilFile]
        /\ UNCHANGED <<fast, slow, rd, bf, logged, wr, calls>>
        /\ UNCHANGED <<treeVars, diskVars, fileVars>>

\* cache.FS.Open(n)
CoordOpen(n) == OpenCache("Open", n, O_RDONLY)

\* cache.FS.Open after the error of the cache, starting the goroutine of
\* ReadFile when the store serves the file
CoordOpenStorePromotes ==
    LET r == StoreOpen(slow, opened.name)
    IN  /\ opened.pc = "store"
        /\ opened' = [opened EXCEPT !.pc = "done", !.err = r.err, !.file = r.file]
        /\ bf' = IF r.err = Nil
                 THEN bf \cup {[id |-> 0, name |-> opened.name, b |-> r.file.b,
                                pc |-> "go"]}
                 ELSE bf
        /\ UNCHANGED <<fast, slow, rd, logged, wr, calls>>
        /\ UNCHANGED <<treeVars, diskVars, fileVars>>

\* cache.FS.Open after the error of the cache: return f.store.Open(name)
CoordOpenStore ==
    LET r == StoreOpen(slow, opened.name)
    IN  /\ opened.pc = "store"
        /\ opened' = [opened EXCEPT !.pc = "done", !.err = r.err, !.file = r.file]
        /\ UNCHANGED <<fast, slow, rd, bf, logged, wr, calls>>
        /\ UNCHANGED <<treeVars, diskVars, fileVars>>

\* cache.FS.OpenFile(n, flags, options...): f.Open(n) when O_RDONLY is set
\* in flags, else f.store.OpenFile
CoordOpenFile(n, flags) ==
    IF isFlagSet(flags, O_RDONLY)
    THEN OpenCache("OpenFile", n, flags)
    ELSE LET r == StoreOpenFile(slow, n, flags)
         IN  /\ opened.pc = "done"
             /\ opened' = [call |-> "OpenFile", pc |-> "done", name |-> n,
                           flags |-> flags, err |-> r.err, file |-> r.file]
             /\ UNCHANGED <<fast, slow, rd, bf, logged, wr, calls>>
             /\ UNCHANGED <<treeVars, diskVars, fileVars>>

\* the name strings passed where files are opened: "a" and "/a"
OpenNames == { <<"a">>, <<"/", "a">> }

\* the coordinator with one caller of ReadFile, whose goroutines fill the
\* cache, a store whose writes work, and callers of Open and OpenFile
OpenNext ==
    \/ \E n \in OpenNames : ReadFileCache(1, n)
    \/ ReadFileStore(1)
    \/ \E g \in bf : BackfillWalkDirs(g)
    \/ \E g \in bf : BackfillAddFile(g)
    \/ \E n \in OpenNames, c \in Contents : CoordWriteFile(n, c, TRUE)
    \/ \E n \in OpenNames : CoordOpen(n)
    \/ CoordOpenStore
    \/ \E n \in OpenNames, flags \in OpenFlags : CoordOpenFile(n, flags)

---------------------------------------------------------------------------
(* The expiring index of the disk tier: disk.FS.expires, an llrb.LLRB of    *)
(* expireKey items under disk.FS.mu, and the goroutine expireLoop.  The     *)
(* tree is a set ordered by expireKey.Less and is modelled as the sequence  *)
(* of its items in ascending order; as in the library, two items are the    *)
(* same key when neither is Less than the other.  The clock counts ticks    *)
(* of ten minutes; the timer of expireLoop (checkTime, one minute) is       *)
(* shorter than a tick and may fire in any state.                           *)

\* expireDuration: 30 * time.Minute, in ticks
ExpireDuration == 3

\* the keys touched: "a" and "b"
IndexNames == { <<"a">>, <<"b">> }

\* expireKey{Time: t, name: n}
ExpireKey(t, n) == [time |-> t, name |-> n]

\* expireKey.Less: e.Less(than) is than.Before(e.Time)
Less(e, than) == than.time < e.time

\* llrb: a and b are the same key
SameKey(a, b) == ~Less(a, b) /\ ~Less(b, a)

RECURSIVE ReplaceOrInsert(_, _)
\* llrb.LLRB.ReplaceOrInsert(item) on the items in ascending order
ReplaceOrInsert(items, item) ==
    IF items = <<>> THEN <<item>>
    ELSE IF Less(item, items[1]) THEN <<item>> \o items
    ELSE IF SameKey(item, items[1]) THEN <<item>> \o Tail(items)
    ELSE <<items[1]>> \o ReplaceOrInsert(Tail(items), item)

RECURSIVE Delete(_, _)
\* llrb.LLRB.Delete(key) on the items in ascending order
Delete(items, key) ==
    IF items = <<>> THEN <<>>
    ELSE IF SameKey(key, items[1]) THEN Tail(items)
    ELSE <<items[1]>> \o Delete(Tail(items), key)

RECURSIVE AscendLessThan(_, _)
\* llrb.LLRB.AscendLessThan(pivot, iterator): the items handed to the
\* iterator, in ascending order, those that are Less than pivot
AscendLessThan(items, pivot) ==
    IF items = <<>> THEN <<>>
    ELSE IF Less(items[1], pivot)
         THEN <<items[1]>> \o AscendLessThan(Tail(items), pivot)
         ELSE <<>>

RECURSIVE ExpireItems(_, _)
\* FS.expireItem called on each of the items visited
ExpireItems(items, visited) ==
    IF visited = <<>> THEN items
    ELSE ExpireItems(Delete(items, visited[1]), Tail(visited))

\* the pass of expireLoop: AscendLessThan(expireKey{now - expireDuration},
\* f.expireItem)
SweepIndex(items, t) ==
    ExpireItems(items, AscendLessThan(items, ExpireKey(t - ExpireDuration, <<>>)))

\* no pass has run
NoPass == [ran |-> FALSE, threshold |-> 0, before |-> <<>>]

\* no touch has been made
NoTouch == [name |-> <<>>, time |-> 0]

\* Close has not been called
NotClosed == [called |-> FALSE, err |-> Nil]

\* the FS as New returns it: closeCh is not made and stays nil; expireLoop
\* has been started
DiskInit ==
    /\ expires = <<>>
    /\ now = 0
    /\ mu = "free"
    /\ sweeper = "select"
    /\ pass = NoPass
    /\ touched = NoTouch
    /\ closeCh = "nil"
    /\ closed = NotClosed

\* time passes
Tick ==
    /\ now < MaxTime
    /\ now' = now + 1
    /\ UNCHANGED <<expires, mu, sweeper, pass, touched, closeCh, closed, calls>>
    /\ UNCHANGED <<treeVars, cacheVars, fileVars>>

\* the touch made by Open, OpenFile, ReadFile and WriteFile: Lock,
\* ReplaceOrInsert(expireKey{time.Now(), name}), Unlock
Touch(n) ==
    /\ mu = "free"
    /\ calls.touches < MaxTouches
    /\ calls' = [calls EXCEPT !.touches = @ + 1]
    /\ expires' = ReplaceOrInsert(expires, ExpireKey(now, n))
    /\ touched' = [name |-> n, time |-> now]
    /\ UNCHANGED <<now, mu, sweeper, pass, closeCh, closed>>
    /\ UNCHANGED <<treeVars, cacheVars, fileVars>>

\* FS.Close: close(f.closeCh), which panics on a nil and on a closed
\* channel; it is called once
Close ==
    /\ ~closed.called
    /\ IF closeCh = "open"
       THEN closeCh' = "closed" /\ closed' = [called |-> TRUE, err |-> Nil]
       ELSE closeCh' = closeCh /\ closed' = [called |-> TRUE, err |-> Panic]
    /\ UNCHANGED <<expires, now, mu, sweeper, pass, touched, calls>>
    /\ UNCHANGED <<treeVars, cacheVars, fileVars>>

\* expireLoop: the select returns when the timer fires or when closeCh is
\* closed (a nil closeCh is never ready); neither case leaves the loop.
\* Then f.mu.Lock()
SweepLock ==
    /\ sweeper = "select"
    /\ mu = "free"
    /\ mu' = "expireLoop"
    /\ sweeper' = "pass"
    /\ UNCHANGED <<expires, now, pass, touched, closeCh, closed, calls>>
    /\ UNCHANGED <<treeVars, cacheVars, fileVars>>

\* expireLoop: the pass, then the second f.mu.Lock() of the iteration, on
\* the mutex the goroutine holds: it blocks there
SweepPass ==
    /\ sweeper = "pass"
    /\ expires' = SweepIndex(expires, now)
    /\ pass' = [ran |-> TRUE, threshold |-> now - ExpireDuration, before |-> expires]
    /\ sweeper' = "lock"
    /\ UNCHANGED <<now, mu, touched, closeCh, closed, calls>>
    /\ UNCHANGED <<treeVars, cacheVars, fileVars>>

DiskNext ==
    \/ Tick
    \/ \E n \in IndexNames : Touch(n)
    \/ Close
    \/ SweepLock
    \/ SweepPass

---------------------------------------------------------------------------
(* File handles of the tree store.  Simple.Open returns the *file of the   *)
(* tree, so a handle that Open returned is the names that lead from the    *)
(* root to the node, and its offset is the offset field of that node.  The *)
(* offsets are small integers; int64 overflow is not reached.  No store of *)
(* this part has the lookup table, so Open always walks the tree.          *)

\* the handle variables of the callers
Handles == {1, 2}

\* a nil fs.File; of a handle, name is the path it was opened with, segs
\* leads to the *file when isRef, f is the *file when it is a copy, and
\* content is the buffer of a WRFile
NoHandle ==
    [kind |-> "none", name |-> <<>>, segs |-> <<>>, isRef |-> FALSE,
     f |-> NilFile, content |-> <<>>]

RECURSIVE Deref(_, _)
\* the *file reached from dir by the names segs, each found by Search
Deref(dir, segs) ==
    IF segs = <<>> THEN dir
    ELSE Deref(dir.objects[Search(dir, segs[1]).x], Tail(segs))

RECURSIVE Store(_, _, _)
\* dir after an assignment through the pointer at segs that leaves f there
Store(dir, segs, f) ==
    IF segs = <<>> THEN f
    ELSE LET x == Search(dir, segs[1]).x
         IN  [dir EXCEPT !.objects[x] = Store(dir.objects[x], Tail(segs), f)]

\* io.SeekStart, io.SeekCurrent and io.SeekEnd
SeekStart   == 0
SeekCurrent == 1
SeekEnd     == 2

\* the smaller of two integers
Min(a, b) == IF a < b THEN a ELSE b

\* file.Read(b) with len(b) = n: the file as the call leaves it, the count
\* and the error returned, and the bytes copied into b
Read(f, n) ==
    IF f.isDir THEN [f |-> f, n |-> 0, err |-> ErrReadADir, b |-> <<>>]
    ELSE IF n = 0 THEN [f |-> f, n |-> 0, err |-> Nil, b |-> <<>>]
    ELSE IF f.offset >= Len(f.content)
    THEN [f |-> f, n |-> 0, err |-> EOF, b |-> <<>>]
    ELSE LET i == Min(n, Len(f.content) - f.offset)
         IN  [f   |-> [f EXCEPT !.offset = @ + i],
              n   |-> i,
              err |-> Nil,
              b   |-> SubSeq(f.content, f.offset + 1, f.offset + i)]

\* file.Seek with io.SeekCurrent taken as io.SeekStart
SeekCurrentIsStart(f, offset, whence) ==
    IF whence = SeekStart \/ whence = SeekCurrent
    THEN IF offset < 0 THEN [f |-> f, n |-> 0, err |-> ErrSeekStart]
         ELSE [f |-> [f EXCEPT !.offset = offset], n |-> offset, err |-> Nil]
    ELSE IF whence = SeekEnd
    THEN IF Len(f.content) + offset < 0
         THEN [f |-> f, n |-> 0, err |-> ErrSeekStart]
         ELSE [f   |-> [f EXCEPT !.offset = Len(f.content) + offset],
               n   |-> Len(f.content) + offset,
               err |-> Nil]
    ELSE [f |-> f, n |-> 0, err |-> ErrWhence]

\* file.Seek without the tests of an offset in front of the start
SeekUnchecked(f, offset, whence) ==
    IF whence = SeekStart
    THEN [f |-> [f EXCEPT !.offset = offset], n |-> offset, err |-> Nil]
    ELSE IF whence = SeekCurrent
    THEN [f   |-> [f EXCEPT !.offset = @ + offset],
          n   |-> f.offset + offset,
          err |-> Nil]
    ELSE IF whence = SeekEnd
    THEN [f   |-> [f EXCEPT !.offset = Len(f.content) + offset],
          n   |-> Len(f.content) + offset,
          err |-> Nil]
    ELSE [f |-> f, n |-> 0, err |-> ErrWhence]

\* file.Seek(offset, whence): the file as the call leaves it, the offset and
\* the error returned
Seek(f, offset, whence) ==
    IF whence = SeekStart
    THEN IF offset < 0 THEN [f |-> f, n |-> 0, err |-> ErrSeekStart]
         ELSE [f |-> [f EXCEPT !.offset = offset], n |-> offset, err |-> Nil]
    ELSE IF whence = SeekCurrent
    THEN IF f.offset + offset < 0
         THEN [f |-> f, n |-> 0, err |-> ErrSeekStart]
         ELSE [f   |-> [f EXCEPT !.offset = @ + offset],
               n   |-> f.offset + offset,
               err |-> Nil]
    ELSE IF whence = SeekEnd
    THEN IF Len(f.content) + offset < 0
         THEN [f |-> f, n |-> 0, err |-> ErrSeekStart]
         ELSE [f   |-> [f EXCEPT !.offset = Len(f.content) + offset],
               n   |-> Len(f.content) + offset,
               err |-> Nil]
    ELSE [f |-> f, n |-> 0, err |-> ErrWhence]

RECURSIVE ReadAll(_)
\* io.ReadAll(f): Read into a buffer of ReadChunk free bytes until Read
\* returns an error; io.EOF is not reported
ReadAll(f) ==
    LET r == Read(f, ReadChunk)
    IN  IF r.err = EOF THEN [f |-> r.f, b |-> <<>>, err |-> Nil]
        ELSE IF r.err # Nil THEN [f |-> r.f, b |-> <<>>, err |-> r.err]
        ELSE LET rest == ReadAll(r.f)
             IN  [f |-> rest.f, b |-> r.b \o rest.b, err |-> rest.err]

\* the paths written and read through handles: "a" and "b/a"
CursorPaths == { <<"a">>, <<"b", "/", "a">> }

\* the paths opened
OpenPaths == CursorPaths

\* the contents written: byte strings of length 2 and 1
ByteContents == { <<1, 2>>, <<3>> }

\* len(b) of the buffers handed to Read
ReadLens == 0..2

\* the offsets and the whence values handed to Seek; 3 is not a whence
SeekOffsets == {0 - 2, 0 - 1, 1, 2}
Whences == 0..3

\* h, err = s.Open(p)
DoOpen(h, p) ==
    LET o == Open(simple, p)
    IN  /\ hnd' = [hnd EXCEPT ![h] =
               IF o.err = Nil /\ o.file # NilFile
               THEN [NoHandle EXCEPT
                        !.kind = "file", !.name = p, !.isRef = TRUE,
                        !.segs = IF p = <<"/">> \/ p = <<>> \/ p = <<".">>
                                 THEN <<>> ELSE Split(p)]
               ELSE NoHandle]
        /\ ret' = [NoRet EXCEPT !.op = "Open", !.name = p, !.h = h,
                                !.err = o.err]
        /\ UNCHANGED <<simple, wrt, writeMu, hist, opt, lan>>
        /\ UNCHANGED <<from, osdisk, dfs, dcall>>
        /\ UNCHANGED <<cacheVars, diskVars, calls>>

\* the handle h.Read(b) with len(b) = n
DoRead(h, n) ==
    /\ hnd[h].kind = "file"
    /\ LET r == Read(Deref(simple.root, hnd[h].segs), n)
       IN  /\ simple' = [simple EXCEPT !.root = Store(@, hnd[h].segs, r.f)]
           /\ ret' = [NoRet EXCEPT !.op = "Read", !.h = h, !.args = <<n>>,
                                   !.n = r.n, !.b = r.b, !.err = r.err]
    /\ UNCHANGED <<wrt, writeMu, hist, opt, lan>>
    /\ UNCHANGED <<hnd, from, osdisk, dfs, dcall>>
    /\ UNCHANGED <<cacheVars, diskVars, calls>>

\* the handle h.Seek(off, whence)
DoSeek(h, off, whence) ==
    /\ hnd[h].kind = "file"
    /\ LET r == Seek(Deref(simple.root, hnd[h].segs), off, whence)
       IN  /\ r.f.offset <= MaxOffset
           /\ simple' = [simple EXCEPT !.root = Store(@, hnd[h].segs, r.f)]
           /\ ret' = [NoRet EXCEPT !.op = "Seek", !.h = h,
                                   !.args = <<off, whence>>,
                                   !.n = r.n, !.err = r.err]
    /\ UNCHANGED <<wrt, writeMu, hist, opt, lan>>
    /\ UNCHANGED <<hnd, from, osdisk, dfs, dcall>>
    /\ UNCHANGED <<cacheVars, diskVars, calls>>

CursorNext ==
    \/ \E p \in CursorPaths, c \in ByteContents : DoWriteFile(p, c)
    \/ \E h \in Handles, p \in OpenPaths : DoOpen(h, p)
    \/ \E h \in Handles, n \in ReadLens : DoRead(h, n)
    \/ \E h \in Handles, off \in SeekOffsets, w \in Whences : DoSeek(h, off, w)

\* the paths opened where directories are opened too: the file "a" and the
\* directory "b"
OpenDirPaths == { <<"a">>, <<"b">> }

\* the handles of a file and of a directory
CursorDirNext ==
    \/ \E p \in CursorPaths, c \in ByteContents : DoWriteFile(p, c)
    \/ \E h \in Handles, p \in OpenDirPaths : DoOpen(h, p)
    \/ \E h \in Handles, n \in ReadLens : DoRead(h, n)
    \/ \E h \in Handles, off \in SeekOffsets, w \in Whences : DoSeek(h, off, w)

---------------------------------------------------------------------------
(* Stat and OpenFile of the tree store, and the WRFile that OpenFile       *)
(* returns.  This Open returns a copy of the *file it finds, but the root  *)
(* itself for "/", "" and ".".  WriteFile takes a perm that it ignores.    *)

\* the fs.FileInfo of a *file, without the time
FileInfo(f) == [name |-> f.name, size |-> Len(f.content), isDir |-> f.isDir]

\* Simple.findDir: err and the directory found
findDir(s, name) ==
    IF name = <<".">> \/ name = <<>> \/ name = <<"/">>
    THEN [err |-> Nil, file |-> s.root]
    ELSE LET n1 == TrimSuffix(TrimPrefix(TrimPrefix(name, "."), "/"), "/")
             sp == Split(n1)
             RECURSIVE Walk(_, _)
             Walk(dir, i) ==
                 IF i > Len(sp)
                 THEN IF ~dir.isDir
                      THEN [err |-> ErrFindNotDir, file |-> NilFile]
                      ELSE [err |-> Nil, file |-> dir]
                 ELSE LET r == Search(dir, sp[i])
                      IN  IF r.err # Nil
                          THEN [err |-> ErrNotExist, file |-> NilFile]
                          ELSE IF ~dir.objects[r.x].isDir
                          THEN [err |-> ErrInvalid, file |-> NilFile]
                          ELSE Walk(dir.objects[r.x], i + 1)
         IN  Walk(s.root, 1)

\* Simple.Stat: the info of what Open finds, else of what findDir finds
Stat(s, name) ==
    LET o == Open(s, name)
    IN  IF o.err = Nil
        THEN IF o.file = NilFile
             THEN [err |-> Panic, fi |-> FileInfo(NewDir(<<>>))]
             ELSE [err |-> Nil, fi |-> FileInfo(o.file)]
        ELSE LET d == findDir(s, name)
             IN  IF d.err # Nil
                 THEN [err |-> ErrNotExist, fi |-> FileInfo(NewDir(<<>>))]
                 ELSE [err |-> Nil, fi |-> FileInfo(d.file)]

\* &WRFile{f: f} for the *file that Open(name) returned
NewWRFile(name, f) ==
    [NoHandle EXCEPT !.kind = "WRFile", !.name = name, !.f = f,
                     !.isRef = (name = <<"/">> \/ name = <<>> \/ name = <<".">>)]

\* Simple.OpenFile: the store as the call leaves it, the error and the file
\* returned.  The test of O_RDONLY, which is 0, never holds.  The block for
\* a file that exists is entered when Open failed, with a nil fs.File, and
\* its first statement, f.Stat(), panics; the tests of O_EXCL and O_TRUNC
\* behind it are not reached.
OpenFile(s, name, flags) ==
    IF isFlagSet(flags, O_RDONLY)
    THEN LET o == Open(s, name)
         IN  [s |-> s, err |-> o.err,
              w |-> IF o.err # Nil THEN NoHandle
                    ELSE [NoHandle EXCEPT !.kind = "file", !.name = name,
                                          !.f = o.file]]
    ELSE IF s.ro THEN [s |-> s, err |-> ErrROMode, w |-> NoHandle]
    ELSE IF ~isFlagSet(flags, O_WRONLY)
    THEN [s |-> s, err |-> ErrOnlySupport, w |-> NoHandle]
    ELSE IF Open(s, name).err # Nil
    THEN [s |-> s, err |-> Panic, w |-> NoHandle]
    ELSE IF ~isFlagSet(flags, O_CREATE)
    THEN [s |-> s, err |-> ErrNotExist, w |-> NoHandle]
    ELSE LET w == WriteFile(s, name, <<>>)
         IN  IF w.err # Nil THEN [s |-> w.s, err |-> w.err, w |-> NoHandle]
             ELSE LET o == Open(w.s, name)
                  IN  IF o.err # Nil
                      THEN [s |-> w.s, err |-> ErrBugOpen, w |-> NoHandle]
                      ELSE [s |-> w.s, err |-> Nil,
                            w |-> NewWRFile(name, o.file)]

\* WRFile.Write(b)
WRWrite(w, b) == [w EXCEPT !.content = @ \o b]

\* WRFile.Close: w.f.content = w.content, on the root of s when w.f is the
\* root and on the copy that w holds otherwise
WRClose(s, w) ==
    IF w.isRef
    THEN [s |-> [s EXCEPT !.root.content = w.content], w |-> w]
    ELSE [s |-> s, w |-> [w EXCEPT !.f.content = w.content]]

\* the paths written, opened and looked up: ".", "b", "/a", "//a", "/a/b"
FilePaths ==
    { <<".">>, <<"b">>, <<"/", "a">>, <<"/", "/", "a">>,
      <<"/", "a", "/", "b">> }

\* the contents written with WriteFile
FileContents == { <<1>>, <<2>> }

\* the byte strings written to a WRFile
WriteChunks == { <<7>>, <<8>> }

\* h, err = s.OpenFile(p, flags); a panic is taken to be recovered by the
\* caller
DoOpenFile(h, p, flags) ==
    LET r == OpenFile(simple, p, flags)
    IN  /\ r.s.items <= MaxItems
        /\ simple' = r.s
        /\ hnd' = [hnd EXCEPT ![h] = r.w]
        /\ ret' = [NoRet EXCEPT !.op = "OpenFile", !.name = p, !.h = h,
                                !.args = <<flags>>, !.err = r.err]
        /\ UNCHANGED <<wrt, writeMu, hist, opt, lan>>
        /\ UNCHANGED <<from, osdisk, dfs, dcall>>
        /\ UNCHANGED <<cacheVars, diskVars, calls>>

\* the WRFile h.Write(b)
DoWrite(h, b) ==
    /\ hnd[h].kind = "WRFile"
    /\ Len(hnd[h].content) + Len(b) <= MaxBuffer
    /\ hnd' = [hnd EXCEPT ![h] = WRWrite(@, b)]
    /\ ret' = [NoRet EXCEPT !.op = "Write", !.h = h, !.b = b, !.n = Len(b)]
    /\ UNCHANGED <<simple, wrt, writeMu, hist, opt, lan>>
    /\ UNCHANGED <<from, osdisk, dfs, dcall>>
    /\ UNCHANGED <<cacheVars, diskVars, calls>>

\* the WRFile h.Close()
DoClose(h) ==
    /\ hnd[h].kind = "WRFile"
    /\ simple' = WRClose(simple, hnd[h]).s
    /\ hnd' = [hnd EXCEPT ![h] = WRClose(simple, hnd[h]).w]
    /\ ret' = [NoRet EXCEPT !.op = "Close", !.h = h]
    /\ UNCHANGED <<wrt, writeMu, hist, opt, lan>>
    /\ UNCHANGED <<from, osdisk, dfs, dcall>>
    /\ UNCHANGED <<cacheVars, diskVars, calls>>

\* s.Stat(p)
DoStat(p) ==
    LET r == Stat(simple, p)
    IN  /\ ret' = [NoRet EXCEPT !.op = "Stat", !.name = p, !.err = r.err,
                                !.fi = r.fi]
        /\ UNCHANGED <<simple, wrt, writeMu, hist, opt, lan>>
        /\ UNCHANGED <<hnd, from, osdisk, dfs, dcall>>
        /\ UNCHANGED <<cacheVars, diskVars, calls>>

FileNext ==
    \/ \E p \in FilePaths, c \in FileContents : DoWriteFile(p, c)
    \/ \E p \in FilePaths, fl \in OpenFlags : DoOpenFile(1, p, fl)
    \/ \E b \in WriteChunks : DoWrite(1, b)
    \/ DoClose(1)
    \/ \E p \in FilePaths : DoStat(p)
    \/ DoRO

---------------------------------------------------------------------------
(* Merge.  The file system merged from is a Simple; fs.WalkDir hands its   *)
(* files to the callback in the order of WalkFiles, and the directories,   *)
(* for which the callback returns nil, in between.  A FileTransform is an  *)
(* argument of the caller: "gzip" puts a header byte in front of the       *)
(* content, "failing" does the same but fails on files named "a".          *)

\* the FileTransform arguments; "none" is a Merge without WithTransform
Transforms == {"none", "gzip", "failing"}

\* opt.fileTransform(base, b)
fileTransform(t, base, b) ==
    IF t = "failing" /\ base = <<"a">>
    THEN [b |-> <<>>, err |-> ErrTransform]
    ELSE [b |-> <<0>> \o b, err |-> Nil]

\* the callback of Merge on the file at path p of src: the store written to
\* as the call leaves it and the error returned
MergeFile(into, src, p, prepend, t) ==
    IF p = <<"/">> \/ p = <<>> THEN [s |-> into, err |-> Nil]
    ELSE LET r == ReadFile(src, p)
         IN  IF r.err # Nil THEN [s |-> into, err |-> r.err]
             ELSE LET tr == IF t = "none" THEN [b |-> r.b, err |-> Nil]
                            ELSE fileTransform(t, PathBase(p), r.b)
                  IN  IF tr.err # Nil THEN [s |-> into, err |-> tr.err]
                      ELSE WriteFile(into, PathJoin(prepend, p), tr.b)

RECURSIVE MergeWalkKeepsGoing(_, _, _, _, _)
\* fs.WalkDir that goes on after the callback returned an error and returns
\* the first error
MergeWalkKeepsGoing(into, src, w, prepend, t) ==
    IF w.files = <<>>
    THEN [s |-> into, err |-> IF w.overflow THEN StackOverflow ELSE Nil]
    ELSE LET m    == MergeFile(into, src, w.files[1].path, prepend, t)
             rest == MergeWalkKeepsGoing(m.s, src, [w EXCEPT !.files = Tail(@)],
                                         prepend, t)
         IN  [s |-> rest.s, err |-> IF m.err # Nil THEN m.err ELSE rest.err]

RECURSIVE MergeWalk(_, _, _, _, _)
\* fs.WalkDir(from, ".", fn) over the rest w of the walk of src: the first
\* error of the callback ends the walk, and a walk that hands over all its
\* files and does not return ends in the stack overflow
MergeWalk(into, src, w, prepend, t) ==
    IF w.files = <<>>
    THEN [s |-> into, err |-> IF w.overflow THEN StackOverflow ELSE Nil]
    ELSE LET m == MergeFile(into, src, w.files[1].path, prepend, t)
         IN  IF m.err # Nil THEN m
             ELSE MergeWalk(m.s, src, [w EXCEPT !.files = Tail(@)], prepend, t)

\* Merge(into, src, prepend, options...)
Merge(into, src, prepend, t) ==
    LET p0 == IF prepend = <<"/">> THEN <<>> ELSE prepend
    IN  IF p0 # <<>> /\ ~HasSuffix(p0, "/")
        THEN [s |-> into, err |-> ErrPrepend]
        ELSE LET p1 == IF p0 # <<>>
                       THEN TrimPrefix(TrimPrefix(p0, "."), "/")
                       ELSE p0
             IN  MergeWalk(into, src, WalkFiles(src), p1, t)

\* the paths written to the source: "a", "b/a", "/.a", and "//a", whose
\* directory "" the walk finds again under "." without end
SrcPaths ==
    { <<"a">>, <<"b", "/", "a">>, <<"/", ".", "a">>, <<"/", "/", "a">> }

\* the contents of the source files
SrcContents == { <<1>>, <<2>> }

\* the paths written to the destination before a Merge: "a" and "c/a"
DstPaths == { <<"a">>, <<"c", "/", "a">> }

\* the content of those
DstContents == { <<9>> }

\* the prepend arguments: "", "/", "c/", "/c/" and "c"
Prepends ==
    { <<>>, <<"/">>, <<"c", "/">>, <<"/", "c", "/">>, <<"c">> }

\* from.WriteFile(p, c) that succeeds; a call that fails leaves from as it
\* was
DoSrcWrite(p, c) ==
    LET w == WriteFile(from, p, c)
    IN  /\ ~Exited
        /\ w.err = Nil
        /\ from' = w.s
        /\ UNCHANGED <<hnd, osdisk, dfs, dcall>>
        /\ UNCHANGED <<treeVars, cacheVars, diskVars, calls>>

\* Merge(simple, from, prepend) or Merge(simple, from, prepend,
\* WithTransform(t))
DoMerge(prepend, t) ==
    LET m == Merge(simple, from, prepend, t)
    IN  /\ ~Exited
        /\ calls.merges < MaxMerges
        /\ calls' = [calls EXCEPT !.merges = @ + 1]
        /\ simple' = m.s
        /\ ret' = [NoRet EXCEPT !.op = "Merge", !.name = prepend,
                                !.args = <<t>>, !.err = m.err]
        /\ UNCHANGED <<wrt, writeMu, hist, opt, lan>>
        /\ UNCHANGED <<hnd, from, osdisk, dfs, dcall>>
        /\ UNCHANGED <<cacheVars, diskVars>>

MergeNext ==
    \/ \E p \in SrcPaths, c \in SrcContents : DoSrcWrite(p, c)
    \/ \E p \in DstPaths, c \in DstContents : DoWriteFile(p, c)
    \/ \E prepend \in Prepends, t \in Transforms : DoMerge(prepend, t)

---------------------------------------------------------------------------
(* The files of the disk cache tier.  disk.FS keeps its files in the       *)
(* operating system, under its location, through osfs.FS.  The operating   *)
(* system is a set of entries, one per path; the paths it is handed are    *)
(* results of path.Join and so are clean.  The caller is taken to have     *)
(* access to every entry whatever its mode, and the umask to be 0.  One    *)
(* caller at a time calls the FS; the expireLoop goroutine runs beside it, *)
(* and the clock ticks between any two steps.  The contents written are of *)
(* one byte, so a Write at the start of a file replaces its content.       *)

\* path.Dir of a clean path that is not "/" or "."
OsDir(p) ==
    LET slashes == {i \in 1..Len(p) : p[i] = "/"}
    IN  IF slashes = {} THEN <<".">>
        ELSE LET i == CHOOSE j \in slashes : \A k \in slashes : k <= j
             IN  IF i = 1 THEN <<"/">> ELSE SubSeq(p, 1, i - 1)

\* a directory and a file of the operating system
OsDirEntry(p) == [path |-> p, isDir |-> TRUE, mode |-> 493, content |-> <<>>]
OsFileEntry(p, mode, c) == [path |-> p, isDir |-> FALSE, mode |-> mode, content |-> c]

\* whether fsys has an entry at p, and the entry
OsExists(fsys, p) == \E e \in fsys : e.path = p
OsEntry(fsys, p) == CHOOSE e \in fsys : e.path = p

RECURSIVE OsResolve(_, _)
\* the error of the system call that looks p up
OsResolve(fsys, p) ==
    IF OsExists(fsys, p) THEN Nil
    ELSE IF p = <<"/">> \/ p = <<".">> THEN ENOENT
    ELSE LET up == OsResolve(fsys, OsDir(p))
         IN  IF up # Nil THEN up
             ELSE IF ~OsEntry(fsys, OsDir(p)).isDir THEN ENOTDIR
             ELSE ENOENT

\* osfs.FS.Open(p), which is os.Open(p): files and directories open alike
OsOpen(fsys, p) == [err |-> OsResolve(fsys, p), path |-> p]

\* os.OpenFile(p, os.O_CREATE|os.O_WRONLY|os.O_TRUNC, mode): the file is
\* made with the mode when it is not there and is cut to no content when
\* it is
OsCreate(fsys, p, mode) ==
    IF OsExists(fsys, p)
    THEN IF OsEntry(fsys, p).isDir THEN [fsys |-> fsys, err |-> EISDIR]
         ELSE [fsys |-> (fsys \ {OsEntry(fsys, p)})
                            \cup {OsFileEntry(p, OsEntry(fsys, p).mode, <<>>)},
               err  |-> Nil]
    ELSE IF OsResolve(fsys, OsDir(p)) # Nil
    THEN [fsys |-> fsys, err |-> OsResolve(fsys, OsDir(p))]
    ELSE IF ~OsEntry(fsys, OsDir(p)).isDir
    THEN [fsys |-> fsys, err |-> ENOTDIR]
    ELSE [fsys |-> fsys \cup {OsFileEntry(p, mode, <<>>)}, err |-> Nil]

\* File.Write(content) on the file that OsCreate opened at p
OsWrite(fsys, p, content) ==
    (fsys \ {OsEntry(fsys, p)})
        \cup {OsFileEntry(p, OsEntry(fsys, p).mode, content)}

\* osfs.FileMode(mode) and disk.FileMode(mode): the first sets the mode of
\* a *osfs.ofOptions, the second that of a *disk.ofOptions
OsFileMode(mode) == [pkg |-> "os", mode |-> mode]
DiskFileMode(mode) == [pkg |-> "disk", mode |-> mode]

RECURSIVE ApplyOptions(_, _)
\* the loop of osfs.FS.OpenFile over its options, on an ofOptions of the
\* os package with mode m: an option of another package returns an error
ApplyOptions(options, m) ==
    IF options = <<>> THEN [err |-> Nil, mode |-> m]
    ELSE IF options[1].pkg # "os" THEN [err |-> ErrWrongType, mode |-> m]
    ELSE ApplyOptions(Tail(options), options[1].mode)

\* a nil *regexp.Regexp; a pattern is the literal lit, anchored at the start
\* of the string ("^lit") or not ("lit")
NoRegex == [nil |-> TRUE, anchored |-> FALSE, lit |-> <<>>]
Regex(anchored, lit) == [nil |-> FALSE, anchored |-> anchored, lit |-> lit]

\* regex.MatchString(s)
MatchString(re, s) ==
    IF re.anchored
    THEN Len(s) >= Len(re.lit) /\ SubSeq(s, 1, Len(re.lit)) = re.lit
    ELSE \E i \in 1..(Len(s) + 1) :
            /\ i + Len(re.lit) - 1 <= Len(s)
            /\ SubSeq(s, i, i + Len(re.lit) - 1) = re.lit

\* a writeFileOptions{regex, options}
WriteFileOptions(regex, options) == [regex |-> regex, options |-> options]

RECURSIVE SelectRule(_, _, _)
\* the loop of WriteFile over f.writeFileOFOptions: opts as the loop leaves
\* it for the name it is handed
SelectRule(rules, name, opts) ==
    IF rules = <<>> THEN opts
    ELSE IF rules[1].regex = NoRegex THEN rules[1].options
    ELSE IF MatchString(rules[1].regex, name) THEN rules[1].options
    ELSE SelectRule(Tail(rules), name, opts)

\* disk.FS.WriteFile up to its touch of the index: the name is joined to
\* the location first, and the rules and the index see the joined name
DiskWriteFile(d, fsys, name, content, perm) ==
    LET joined == PathJoin(d.location, name)
        opts   == SelectRule(d.rules, joined, <<OsFileMode(perm)>>)
        a      == ApplyOptions(opts, 0)
        o      == OsCreate(fsys, joined, a.mode)
    IN  IF a.err # Nil
        THEN [fsys |-> fsys, err |-> a.err, opts |-> opts, touch |-> <<>>]
        ELSE IF o.err # Nil
        THEN [fsys |-> fsys, err |-> o.err, opts |-> opts, touch |-> <<>>]
        ELSE [fsys |-> OsWrite(o.fsys, joined, content), err |-> Nil,
              opts |-> opts, touch |-> <<joined>>]

\* disk.FS.Open up to its touch of the index
DiskOpen(d, fsys, name) ==
    LET o == OsOpen(fsys, PathJoin(d.location, name))
    IN  [err |-> o.err, path |-> o.path,
         touch |-> IF o.err = Nil THEN <<name>> ELSE <<>>]

\* os.OpenFile(p, flags, mode) for the flags callers pass: with O_CREATE a
\* file that is not there is made with the mode; a directory is not opened
\* for writing
OsOpenFile(fsys, p, flags, mode) ==
    IF OsExists(fsys, p)
    THEN IF OsEntry(fsys, p).isDir /\ isFlagSet(flags, O_WRONLY)
         THEN [fsys |-> fsys, err |-> EISDIR]
         ELSE [fsys |-> fsys, err |-> Nil]
    ELSE IF ~isFlagSet(flags, O_CREATE)
    THEN [fsys |-> fsys, err |-> OsResolve(fsys, p)]
    ELSE IF OsResolve(fsys, OsDir(p)) # Nil
    THEN [fsys |-> fsys, err |-> OsResolve(fsys, OsDir(p))]
    ELSE IF ~OsEntry(fsys, OsDir(p)).isDir
    THEN [fsys |-> fsys, err |-> ENOTDIR]
    ELSE [fsys |-> fsys \cup {OsFileEntry(p, mode, <<>>)}, err |-> Nil]

\* disk.FS.OpenFile(name, flags) without options, up to its touch of the
\* index: toOsOFOptions hands osfs no option, so the mode is 0
DiskOpenFile(d, fsys, name, flags) ==
    LET o == OsOpenFile(fsys, PathJoin(d.location, name), flags, 0)
    IN  [fsys |-> o.fsys, err |-> o.err,
         touch |-> IF o.err = Nil THEN <<name>> ELSE <<>>]

\* io.ReadAll of the *osfs.File opened at p
OsReadAll(fsys, p) ==
    IF OsEntry(fsys, p).isDir THEN [err |-> EISDIR, b |-> <<>>]
    ELSE [err |-> Nil, b |-> OsEntry(fsys, p).content]

\* disk.FS.ReadFile up to its own touch of the index: it hands Open the
\* name joined to the location, and Open joins it to the location again;
\* path is where the file it reads after the touches is open
DiskReadFile(d, fsys, name) ==
    LET o == DiskOpen(d, fsys, PathJoin(d.location, name))
    IN  IF o.err # Nil THEN [err |-> o.err, path |-> o.path, touch |-> <<>>]
        ELSE [err |-> Nil, path |-> o.path, touch |-> o.touch \o <<name>>]

\* File.Write(content) on a handle open at p with flags, at the start of
\* the file: a handle that is not open for writing returns an error
OsFileWrite(fsys, p, flags, content) ==
    IF ~isFlagSet(flags, O_WRONLY) THEN [fsys |-> fsys, err |-> EBADF]
    ELSE [fsys |-> OsWrite(fsys, p, content), err |-> Nil]

\* the locations New is called with: "/c" and "."
Locations == { <<"/", "c">>, <<".">> }

\* the operating system as New finds it: the location is a directory and
\* holds a directory "c"
OsInit(location) ==
    { OsDirEntry(location), OsDirEntry(PathJoin(location, <<"c">>)) }
        \cup (IF location[1] = "/" THEN {OsDirEntry(<<"/">>)} ELSE {})

\* the rule lists New is called with, as WithWriteFileOFOptions options:
\* none; ("^a", 0600); ("c", 0600) then (nil, 0400); (nil, disk.FileMode)
\* then ("^a", 0600)
RuleLists ==
    { <<>>,
      << WriteFileOptions(Regex(TRUE, <<"a">>), <<OsFileMode(384)>>) >>,
      << WriteFileOptions(Regex(FALSE, <<"c">>), <<OsFileMode(384)>>),
         WriteFileOptions(NoRegex, <<OsFileMode(256)>>) >>,
      << WriteFileOptions(NoRegex, <<DiskFileMode(384)>>),
         WriteFileOptions(Regex(TRUE, <<"a">>), <<OsFileMode(384)>>) >> }

\* the names callers pass: "a", "b" and "c/a"
DiskNames == { <<"a">>, <<"b">>, <<"c", "/", "a">> }

\* the perm callers pass: 0644
Perms == {420}

\* no call has been made; of a call, opts is the options WriteFile chose,
\* pending the names it has still to touch the index with, and path and
\* flags where and how the file it opened is open
IdleDiskCall ==
    [pc |-> "idle", op |-> "none", name |-> <<>>, content |-> <<>>,
     perm |-> 0, opts |-> <<>>, pending |-> <<>>, err |-> Nil, b |-> <<>>,
     path |-> <<>>, flags |-> 0]

\* the FS that New(location, options...) returns and what it left alone
DiskFilesInit(location, rules) ==
    /\ dfs = [location |-> location, rules |-> rules]
    /\ osdisk = OsInit(location)
    /\ dcall = IdleDiskCall

\* f.WriteFile(name, content, perm) up to its f.mu.Lock()
DiskWriteStart(name, content, perm) ==
    /\ dcall.pc \in {"idle", "done"}
    /\ calls.writes + calls.reads < MaxDiskCalls
    /\ calls' = [calls EXCEPT !.writes = @ + 1]
    /\ LET w == DiskWriteFile(dfs, osdisk, name, content, perm)
       IN  /\ osdisk' = w.fsys
           /\ dcall' = [IdleDiskCall EXCEPT
                           !.pc = IF w.touch = <<>> THEN "done" ELSE "touch",
                           !.op = "WriteFile", !.name = name,
                           !.content = content, !.perm = perm,
                           !.opts = w.opts, !.pending = w.touch,
                           !.err = w.err]
    /\ UNCHANGED <<hnd, from, dfs>>
    /\ UNCHANGED <<treeVars, cacheVars, diskVars>>

\* f.ReadFile(name) up to the f.mu.Lock() of Open: the file is open and
\* nothing is read
DiskReadStart(name) ==
    /\ dcall.pc \in {"idle", "done"}
    /\ calls.writes + calls.reads < MaxDiskCalls
    /\ calls' = [calls EXCEPT !.reads = @ + 1]
    /\ LET r == DiskReadFile(dfs, osdisk, name)
       IN  dcall' = [IdleDiskCall EXCEPT
                        !.pc = IF r.touch = <<>> THEN "done" ELSE "touch",
                        !.op = "ReadFile", !.name = name,
                        !.pending = r.touch, !.err = r.err,
                        !.path = r.path, !.flags = O_RDONLY]
    /\ UNCHANGED <<hnd, from, osdisk, dfs>>
    /\ UNCHANGED <<treeVars, cacheVars, diskVars>>

\* f.Open(name) up to its f.mu.Lock()
DiskOpenStart(name) ==
    /\ dcall.pc \in {"idle", "done"}
    /\ calls.writes + calls.reads < MaxDiskCalls
    /\ calls' = [calls EXCEPT !.reads = @ + 1]
    /\ LET o == DiskOpen(dfs, osdisk, name)
       IN  dcall' = [IdleDiskCall EXCEPT
                        !.pc = IF o.touch = <<>> THEN "done" ELSE "touch",
                        !.op = "Open", !.name = name,
                        !.pending = o.touch, !.err = o.err,
                        !.path = o.path, !.flags = O_RDONLY]
    /\ UNCHANGED <<hnd, from, osdisk, dfs>>
    /\ UNCHANGED <<treeVars, cacheVars, diskVars>>

\* f.OpenFile(name, flags) up to its f.mu.Lock()
DiskOpenFileStart(name, flags) ==
    /\ dcall.pc \in {"idle", "done"}
    /\ calls.writes + calls.reads < MaxDiskCalls
    /\ calls' = [calls EXCEPT !.reads = @ + 1]
    /\ LET o == DiskOpenFile(dfs, osdisk, name, flags)
       IN  /\ osdisk' = o.fsys
           /\ dcall' = [IdleDiskCall EXCEPT
                           !.pc = IF o.touch = <<>> THEN "done" ELSE "touch",
                           !.op = "OpenFile", !.name = name,
                           !.pending = o.touch, !.err = o.err,
                           !.path = PathJoin(dfs.location, name),
                           !.flags = flags]
    /\ UNCHANGED <<hnd, from, dfs>>
    /\ UNCHANGED <<treeVars, cacheVars, diskVars>>

\* the next touch of the call: Lock, ReplaceOrInsert(expireKey{time.Now(),
\* name}), Unlock; after its last touch ReadFile goes on to read and the
\* other calls return
DiskTouch ==
    /\ dcall.pc = "touch"
    /\ mu = "free"
    /\ expires' = ReplaceOrInsert(expires, ExpireKey(now, dcall.pending[1]))
    /\ touched' = [name |-> dcall.pending[1], time |-> now]
    /\ dcall' = [dcall EXCEPT
                    !.pending = Tail(@),
                    !.pc = IF Len(dcall.pending) > 1 THEN "touch"
                           ELSE IF dcall.op = "ReadFile" THEN "read"
                           ELSE "done"]
    /\ UNCHANGED <<now, mu, sweeper, pass, closeCh, closed>>
    /\ UNCHANGED <<hnd, from, osdisk, dfs>>
    /\ UNCHANGED <<treeVars, cacheVars, calls>>

\* time passes between the steps of the calls
DiskTick ==
    /\ now < MaxDiskTime
    /\ now' = now + 1
    /\ UNCHANGED <<expires, mu, sweeper, pass, touched, closeCh, closed, calls>>
    /\ UNCHANGED <<treeVars, cacheVars, fileVars>>

\* f.ReadFile after its touches: return io.ReadAll(r)
DiskReadAll ==
    /\ dcall.pc = "read"
    /\ dcall' = [dcall EXCEPT !.pc = "done",
                              !.err = OsReadAll(osdisk, dcall.path).err,
                              !.b = OsReadAll(osdisk, dcall.path).b]
    /\ UNCHANGED <<hnd, from, osdisk, dfs>>
    /\ UNCHANGED <<treeVars, cacheVars, diskVars, calls>>

\* file.(*osfs.File).Write(content) on the file that the Open or the
\* OpenFile that has returned last returned, once
DiskFileWrite(content) ==
    LET w == OsFileWrite(osdisk, dcall.path, dcall.flags, content)
    IN  /\ dcall.pc = "done"
        /\ dcall.op \in {"Open", "OpenFile"}
        /\ dcall.err = Nil
        /\ osdisk' = w.fsys
        /\ dcall' = [dcall EXCEPT !.op = "Write", !.content = content,
                                  !.err = w.err]
        /\ UNCHANGED <<hnd, from, dfs>>
        /\ UNCHANGED <<treeVars, cacheVars, diskVars, calls>>

DiskFilesNext ==
    \/ \E n \in DiskNames, c \in Contents, perm \in Perms :
           DiskWriteStart(n, c, perm)
    \/ \E n \in DiskNames : DiskReadStart(n)
    \/ \E n \in DiskNames : DiskOpenStart(n)
    \/ \E n \in DiskNames, flags \in OpenFlags : DiskOpenFileStart(n, flags)
    \/ DiskTouch
    \/ DiskReadAll
    \/ \E c \in Contents : DiskFileWrite(c)
    \/ DiskTick
    \/ SweepLock
    \/ SweepPass

---------------------------------------------------------------------------
(* The coordinator over a slow tier in which every name is written with    *)
(* one content of its own: "/a" with "X", the other names with "Y".  The   *)
(* slow tier starts empty and loses no blob, so the contents it has held   *)
(* for a name up to a state are the one it holds in that state.            *)

\* the content written under the name n
ContentOf(n) == IF n = <<"/", "a">> THEN <<88>> ELSE <<89>>

ValidityNext ==
    \/ \E p \in Callers, n \in CacheNames : ReadFileCache(p, n)
    \/ \E p \in Callers : ReadFileStore(p)
    \/ \E g \in bf : BackfillWalkDirs(g)
    \/ \E g \in bf : BackfillAddFile(g)
    \/ \E n \in CacheNames, ok \in BOOLEAN : CoordWriteFile(n, ContentOf(n), ok)

---------------------------------------------------------------------------
(* The peer picker of the groupcache: LAN.setPeers.                        *)

\* addresses of the hosts a discovery reports
PeerAddrs == { "10.0.0.1", "10.0.0.2", "10.0.0.3" }

defaultPayload == "groupcache"

\* payloads the hosts on the network broadcast
Payloads == { defaultPayload, "other" }

\* peerdiscovery.Discovered
Discovered == [Address : PeerAddrs, Payload : Payloads]

\* what peerdiscovery.Discover returns: each host is reported once
Discoveries ==
    UNION { { d \in [1..n -> Discovered] :
                \A i, j \in 1..n : d[i].Address = d[j].Address => i = j }
            : n \in 0..MaxDiscovered }

\* l.isPeer as New sets it
defaultIsPeer(peer) == peer.Payload = defaultPayload

\* the first loop of setPeers: "http://"+peer.Address of each discovered
\* peer that isPeer accepts, in the order of the discovery
RECURSIVE AcceptedPeers(_)
AcceptedPeers(peers) ==
    IF peers = <<>>
    THEN <<>>
    ELSE (IF defaultIsPeer(Head(peers))
          THEN << "http://" \o Head(peers).Address >>
          ELSE <<>>) \o AcceptedPeers(Tail(peers))

\* sort.StringSlice(peerList): the conversion of a []string to the type
\* sort.StringSlice; the elements keep their places (no Sort is called)
StringSlice(peerList) == peerList

\* l.peers = peerList; l.HTTPPool.Set(peerList...)
SetPool(r, peerList) ==
    [l    |-> [peers |-> peerList, pool |-> peerList],
     sets |-> r.sets + 1]

\* the second loop of setPeers from index i on: l.peers[i] is read from the
\* list as the iterations before it left it
RECURSIVE ComparePeers(_, _, _)
ComparePeers(r, peerList, i) ==
    IF i > Len(peerList)
    THEN r
    ELSE IF r.l.peers[i] # peerList[i]
    THEN ComparePeers(SetPool(r, peerList), peerList, i + 1)
    ELSE ComparePeers(r, peerList, i + 1)

\* l.setPeers(peers): the LAN as the call leaves it and the calls of
\* HTTPPool.Set it made
setPeers(l, peers) ==
    LET peerList == StringSlice(AcceptedPeers(peers))
        r        == [l |-> l, sets |-> 0]
    IN  IF Len(peerList) # Len(l.peers)
        THEN SetPool(r, peerList)
        ELSE ComparePeers(r, peerList, 1)

\* New: the LAN holds no peers and its pool has none; no setPeers call yet
PeerInit ==
    lan = [l          |-> [peers |-> <<>>, pool |-> <<>>],
           called     |-> FALSE,
           held       |-> <<>>,
           discovered |-> <<>>,
           sets       |-> 0]

\* one round of discovery(): peerdiscovery.Discover returned peers and
\* setPeers is called with them
DoSetPeers(peers) ==
    LET r == setPeers(lan.l, peers)
    IN  /\ lan' = [l          |-> r.l,
                   called     |-> TRUE,
                   held       |-> lan.l.peers,
                   discovered |-> peers,
                   sets       |-> r.sets]
        /\ UNCHANGED <<simple, ret, wrt, writeMu, hist, opt>>
        /\ UNCHANGED <<cacheVars, diskVars, fileVars, calls>>

PeerNext == \E peers \in Discoveries : DoSetPeers(peers)

---------------------------------------------------------------------------
(* Specifications: one per component, the other components at rest.        *)

\* the handles, the source of Merge and the disk files at rest
FileInit ==
    /\ hnd = [h \in Handles |-> NoHandle]
    /\ from = NewSimple(<<>>)
    /\ DiskFilesInit(<<"/", "c">>, <<>>)

Init ==
    TreeInit /\ CacheInit /\ DiskInit /\ FileInit /\ PeerInit /\ calls = NoCalls

\* the tree store
Spec == Init /\ [][TreeNext]_vars

\* the cache coordinator
SpecCache == Init /\ [][CacheNext]_vars

\* the expiring index
SpecIndex == Init /\ [][DiskNext]_vars

\* Open and OpenFile of the cache coordinator
SpecOpen == Init /\ [][OpenNext]_vars

\* concurrent writers of the tree store
SpecWriters == Init /\ [][WritersNext]_vars

InitPearson ==
    /\ PearsonTreeInit /\ CacheInit /\ DiskInit /\ FileInit /\ PeerInit
    /\ calls = NoCalls

\* the tree store with the lookup table
SpecPearson == InitPearson /\ [][PearsonNext]_vars

\* file handles of the tree store: Open, Read and Seek
SpecCursor == Init /\ [][CursorNext]_vars

\* Stat, OpenFile and WRFile of the tree store
SpecFile == Init /\ [][FileNext]_vars

\* Merge from one tree store into another
SpecMerge == Init /\ [][MergeNext]_vars

InitDiskFiles ==
    /\ TreeInit /\ CacheInit /\ DiskInit /\ PeerInit /\ calls = NoCalls
    /\ hnd = [h \in Handles |-> NoHandle]
    /\ from = NewSimple(<<>>)
    /\ \E location \in Locations, rules \in RuleLists :
           DiskFilesInit(location, rules)

\* the files of the disk cache tier
SpecDiskFiles == InitDiskFiles /\ [][DiskFilesNext]_vars

\* the coordinator with its readers, over a slow tier whose names have one
\* content each
SpecValidity == Init /\ [][ValidityNext]_vars

\* file and directory handles of the tree store: Open, Read and Seek
SpecCursorDir == Init /\ [][CursorDirNext]_vars

\* the peer picker: rounds of discovery
SpecPeers == Init /\ [][PeerNext]_vars

---------------------------------------------------------------------------
(* Properties of the tree store, checked under Spec.                       *)

\* the segments WriteFile walks for the path string p
WritePath(p) == Split(TrimPrefix(TrimPrefix(p, "."), "/"))

RECURSIVE NodeAt(_, _)
\* the node reached from dir along the segment names segs, or NilFile
NodeAt(dir, segs) ==
    IF segs = <<>> THEN dir
    ELSE IF \E k \in 1..Len(dir.objects) : dir.objects[k].name = segs[1]
         THEN NodeAt(dir.objects[CHOOSE k \in 1..Len(dir.objects) :
                                     dir.objects[k].name = segs[1]], Tail(segs))
         ELSE NilFile

\* p passes the argument checks of WriteFile
WellFormedPath(p) == p # <<>> /\ ~HasSuffix(p, "/")

\* C2: after a successful WriteFile(p, c), ReadFile(p) with the same string
\* p returns exactly c.
C2_ReadBackWritten ==
    (ret.op = "WriteFile" /\ ret.err = Nil)
        => ReadFile(simple, ret.name) = [err |-> Nil, b |-> ret.content]

\* the node the path string p names: the root for "", "/" and ".", as Open
\* and ReadDir take them, and else the node at the segments of p without a
\* leading "." and "/" and a trailing "/"
PathNode(s, p) ==
    IF p \in {<<>>, <<"/">>, <<".">>} THEN s.root
    ELSE NodeAt(s.root,
                Split(TrimSuffix(TrimPrefix(TrimPrefix(p, "."), "/"), "/")))

\* C3: a WriteFile(p, c) whose path p already has a node, a file or a
\* directory, returns fs.ErrExist and leaves the node and the whole store
\* as they were.
C3_WriteOnce ==
    [][(ret'.op = "WriteFile" /\ PathNode(simple, ret'.name) # NilFile)
       => (ret'.err = ErrExist /\ simple' = simple)]_vars

\* C4: once RO() has been called the store stays read-only, every WriteFile
\* returns the locked error, also for a path with no node, and the tree and
\* the file counter never change again.
C4_FreezeIsOneWay ==
    [][simple.ro =>
        /\ simple'.ro
        /\ (ret'.op = "WriteFile" => ret'.err = ErrLocked)
        /\ simple'.root = simple.root
        /\ simple'.items = simple.items]_vars

\* a write to a path with no node was refused as locked
C4_Witness ==
    /\ simple.ro
    /\ ret.op = "WriteFile"
    /\ ret.err = ErrLocked
    /\ WellFormedPath(ret.name)
    /\ NodeAt(simple.root, WritePath(ret.name)) = NilFile

RECURSIVE NodeWellFormed(_)
\* below n, children are in strictly ascending order of name and files have
\* no children
NodeWellFormed(n) ==
    IF n.isDir
    THEN /\ \A k \in 1..(Len(n.objects) - 1) :
               StrLess(n.objects[k].name, n.objects[k + 1].name)
         /\ \A k \in 1..Len(n.objects) : NodeWellFormed(n.objects[k])
    ELSE n.objects = <<>>

\* C5: in every state the root is a directory named ".", the children of
\* every directory have pairwise distinct names in strictly ascending
\* lexical order, and no file has children.
C5_TreeWellFormed ==
    /\ simple.root.isDir
    /\ simple.root.name = <<".">>
    /\ NodeWellFormed(simple.root)

\* the file "a" was added to a root that already had a child and was put
\* in front of it
C5_Witness ==
    /\ ret.op = "WriteFile"
    /\ ret.err = Nil
    /\ ret.name = <<"a">>
    /\ Len(simple.root.objects) >= 2
    /\ simple.root.objects[1].name = <<"a">>

---------------------------------------------------------------------------
(* Properties of the concurrent writers, checked under SpecWriters.        *)

RECURSIVE Replay(_, _)
\* the store and the errors returned when the first n calls of hist run one
\* after the other, in the order of hist, on a store built by NewSimple
Replay(h, n) ==
    IF n = 0 THEN [s |-> NewSimple(<<>>), errs |-> <<>>]
    ELSE LET before == Replay(h, n - 1)
             w      == WriteFile(before.s, h[n].name, h[n].content)
         IN  [s |-> w.s, errs |-> Append(before.errs, w.err)]

\* C16: as long as the store is not frozen, the concurrent WriteFile calls
\* are linearized in the order they took writeMu: whenever no call holds
\* writeMu the tree and the file counter are those of running the calls one
\* after the other in that order, every call that has returned returned
\* what it returns in that run, and the file counter is the number of calls
\* that returned nil; so of two writes to one path one gets fs.ErrExist.
C16_WritersLinearized ==
    ~simple.ro =>
        LET run == Replay(hist, Len(hist))
        IN  /\ \A k \in 1..Len(hist) :
                  hist[k].err # "pending" => hist[k].err = run.errs[k]
            /\ \A w \in Writers :
                  (wrt[w].pc = "done" /\ wrt[w].k = 0)
                     => wrt[w].err = WriteFile(NewSimple(<<>>), wrt[w].name, wrt[w].content).err
            /\ writeMu = 0
                  => /\ simple.root = run.s.root
                     /\ simple.items = run.s.items
                     /\ simple.items
                           = Cardinality({k \in 1..Len(hist) : hist[k].err = Nil})

\* writer 1 called WriteFile while the call of writer 2 was running, both
\* for the same path; the one that took writeMu first added the file and
\* the other got fs.ErrExist
C16_Witness ==
    /\ ~simple.ro
    /\ wrt[1].pc = "done" /\ wrt[2].pc = "done"
    /\ wrt[1].overlap
    /\ wrt[1].sp = wrt[2].sp
    /\ wrt[1].k = 2 /\ wrt[2].k = 1
    /\ wrt[1].err = ErrExist /\ wrt[2].err = Nil
    /\ calls.starts = 2
    /\ simple.items = 1

\* C17: once RO has returned the tree and the file counter are never
\* changed again, also by a WriteFile that was started before RO.
C17_NoWriteAfterFreeze ==
    [][simple.ro => (simple'.root = simple.root /\ simple'.items = simple.items)]_vars

---------------------------------------------------------------------------
(* Properties of the lookup table, checked under SpecPearson.              *)

\* the files of the tree of s, each with its full path
FilesOf(s) ==
    LET fl == WalkFiles(s).files IN {fl[k] : k \in 1..Len(fl)}

\* the table slot of path in a store of n files: hash(path) mod (n + 1)
SlotOf(path, n) == pearson(path) % (n + 1)

\* the slots of the files of s are pairwise different
NoCollisions(s) ==
    \A f, g \in FilesOf(s) :
        f # g => SlotOf(f.path, s.items) # SlotOf(g.path, s.items)

\* C18: on a frozen store with the lookup table whose files have pairwise
\* different slots, ReadFile of the path of every file returns the content
\* the tree holds for it, the one the lookup in the tree returned before
\* the freeze.
C18_LookupEquivalence ==
    (simple.pearson /\ simple.ro /\ NoCollisions(simple))
        => \A f \in FilesOf(simple) :
              ReadFile(simple, f.path) = [err |-> Nil, b |-> f.file.content]

\* C19: RO on a store with the lookup table does not panic, the table it
\* builds has every file's slot inside its bounds, and it holds every file
\* in the slot hash(path) mod (items + 1), the slot a lookup of the path
\* reads, unless a file of the same slot took its place.
C19_TableConstruction ==
    [][(simple.pearson /\ ~simple.ro /\ simple'.ro)
        => /\ ret'.err # Panic
           /\ \A f \in FilesOf(simple) :
                 LET i == SlotOf(f.path, simple.items)
                 IN  /\ i < Len(simple'.cache)
                     /\ \E g \in FilesOf(simple) :
                           /\ SlotOf(g.path, simple.items) = i
                           /\ simple'.cache[i + 1] = g.file]_vars

\* C20: a store built by NewSimple(WithPearson()) has the lookup table
\* switched on, and once frozen it has a table of one slot per file; a
\* store built without the option, and on which the option was not called
\* afterwards, has no table.
C20_OptionTakesEffect ==
    /\ opt.requested = <<"WithPearson">>
          => /\ simple.pearson
             /\ simple.ro => Len(simple.cache) = simple.items
    /\ (opt.requested = <<>> /\ ~opt.applied)
          => (~simple.pearson /\ simple.cache = <<>>)

---------------------------------------------------------------------------
(* Properties of the cache coordinator, checked under SpecCache.           *)

\* the goroutine started by the call of caller p has run
BackfillDone(p) == rd[p].go /\ \A g \in bf : g.id # rd[p].call

\* C1: a ReadFile(name) that misses the cache and finds name -> X in the
\* store returns X, and once the goroutine it started has run,
\* fast.ReadFile(name) with the same name string returns X too.
C1_WaterfallRead ==
    \A p \in Callers :
        (rd[p].pc = "done" /\ rd[p].fastErr # Nil /\ rd[p].storeErr = Nil)
            => /\ rd[p].err = Nil
               /\ rd[p].b = rd[p].storeB
               /\ BackfillDone(p)
                    => ReadFile(fast, rd[p].name) = [err |-> Nil, b |-> rd[p].storeB]

\* the errors Simple.ReadFile returns
CacheErrors == {ErrNotExist, ErrSearchNotDir, ErrReadDir}

\* C7: ReadFile never returns the error of the cache: after a miss it
\* returns the bytes of the store when the store has the file, and when
\* the store fails too it returns the error of the store, starts no
\* goroutine and leaves the cache as it was.
C7_ReadErrors ==
    [][\A p \in Callers :
        (rd[p].pc = "miss" /\ rd'[p].pc = "done")
            => /\ rd'[p].fastErr \in CacheErrors
               /\ rd'[p].err \notin CacheErrors
               /\ rd'[p].storeErr = StoreReadFile(slow, rd[p].name).err
               /\ rd'[p].storeErr = Nil
                    => (rd'[p].err = Nil
                        /\ rd'[p].b = StoreReadFile(slow, rd[p].name).b)
               /\ rd'[p].storeErr # Nil
                    => (rd'[p].err = rd'[p].storeErr
                        /\ ~rd'[p].go /\ bf' = bf /\ fast' = fast)]_vars

\* a call failed with the error of the store after the cache had failed too
C7_Witness ==
    \E p \in Callers :
        /\ rd[p].pc = "done"
        /\ rd[p].fastErr = ErrReadDir
        /\ rd[p].err = ErrStoreNotExist
        /\ ~rd[p].go

\* C8: two ReadFile(name) calls that both miss the cache both return the
\* bytes X of the store; an error of a goroutine's write is logged only,
\* and when both goroutines have run fast.ReadFile(name) returns X.
C8_ConcurrentMisses ==
    \A p, q \in Callers :
        (/\ p # q
         /\ rd[p].pc = "done" /\ rd[q].pc = "done"
         /\ rd[p].name = rd[q].name
         /\ rd[p].fastErr # Nil /\ rd[q].fastErr # Nil
         /\ rd[p].storeErr = Nil /\ rd[q].storeErr = Nil
         /\ rd[p].storeB = rd[q].storeB)
            => /\ rd[p].err = Nil /\ rd[q].err = Nil
               /\ rd[p].b = rd[p].storeB /\ rd[q].b = rd[p].storeB
               /\ (BackfillDone(p) /\ BackfillDone(q))
                    => ReadFile(fast, rd[p].name) = [err |-> Nil, b |-> rd[p].storeB]

\* C9: the return of ReadFile after a miss does not wait for the write to
\* the cache: the step is enabled whenever the call has missed, it leaves
\* the cache as it was, and the write is left to a goroutine that has not
\* run yet.
C9_ReadDoesNotWait ==
    /\ [](\A p \in Callers : rd[p].pc = "miss" => ENABLED ReadFileStore(p))
    /\ [][\A p \in Callers :
            (rd[p].pc = "miss" /\ rd'[p].pc = "done")
                => /\ fast' = fast
                   /\ rd'[p].err = Nil
                        => \E g \in bf' \ bf :
                              /\ g.id = rd'[p].call
                              /\ g.name = rd'[p].name
                              /\ g.b = rd'[p].b]_vars

\* a call has returned the bytes of the store while its goroutine has not
\* run and the cache does not have the file
C9_Witness ==
    \E p \in Callers :
        /\ rd[p].pc = "done"
        /\ rd[p].err = Nil
        /\ rd[p].b \in Contents
        /\ \E g \in bf : g.id = rd[p].call
        /\ ReadFile(fast, rd[p].name).err # Nil

\* C10: the coordinator's WriteFile calls the store's WriteFile only and
\* returns its result; the cache is as before, so a ReadFile of a name the
\* cache holds returns what the cache holds whatever the store has.
C10_WriteGoesToStore ==
    [][/\ calls'.writes # calls.writes
            => /\ fast' = fast /\ bf' = bf /\ rd' = rd /\ logged' = logged
               /\ slow' = StoreWriteFile(slow, wr'.name, wr'.content,
                                         wr'.storeErr = Nil).st
               /\ wr'.err = wr'.storeErr
               /\ wr'.storeErr = Nil => slow'[wr'.name] = wr'.content
       /\ \A p \in Callers :
            (/\ calls'.reads # calls.reads
             /\ rd'[p] # rd[p]
             /\ ReadFile(fast, rd'[p].name).err = Nil)
                => /\ rd'[p].pc = "done"
                   /\ rd'[p].err = Nil
                   /\ rd'[p].b = ReadFile(fast, rd'[p].name).b]_vars

\* a ReadFile made after the last WriteFile, which wrote other content to
\* the store under the same name, returned the old content of the cache
C10_Witness ==
    \E p \in Callers :
        /\ rd[p].pc = "done"
        /\ rd[p].fastErr = Nil
        /\ rd[p].err = Nil
        /\ rd[p].writes = calls.writes
        /\ wr.name = rd[p].name
        /\ wr.err = Nil
        /\ wr.content # rd[p].b
        /\ slow[rd[p].name] = wr.content

---------------------------------------------------------------------------
(* Properties of Open and OpenFile of the coordinator, checked under       *)
(* SpecOpen.                                                               *)

\* C11: Open(name) returns the handle of the cache whenever the cache opens
\* the name and otherwise what the store's Open returns, handle or error;
\* neither of its two calls on the tiers starts a goroutine or changes the
\* cache or the store, also when the store served the file.
C11_OpenDoesNotPromote ==
    [][/\ (opened' # opened /\ opened'.call = "Open")
            => (fast' = fast /\ bf' = bf /\ slow' = slow /\ logged' = logged)
       /\ (opened' # opened /\ opened'.call = "Open" /\ opened.pc = "done")
            => IF Open(fast, opened'.name).err = Nil
               THEN /\ opened'.pc = "done"
                    /\ opened'.err = Nil
                    /\ opened'.file = Open(fast, opened'.name).file
               ELSE opened'.pc = "store"
       /\ (opened.call = "Open" /\ opened.pc = "store" /\ opened'.pc = "done")
            => /\ opened'.name = opened.name
               /\ opened'.err = StoreOpen(slow, opened.name).err
               /\ opened'.file = StoreOpen(slow, opened.name).file]_vars

\* an Open was served by the store while the cache does not have the file
\* and no goroutine is there to write it
C11_Witness ==
    /\ opened.call = "Open"
    /\ opened.pc = "done"
    /\ opened.err = Nil
    /\ opened.file = StoreHandle(slow, opened.name, O_RDONLY)
    /\ Open(fast, opened.name).err # Nil
    /\ bf = {}

\* flags has no write or create bit
ReadOnlyFlags(flags) ==
    ~isFlagSet(flags, O_WRONLY) /\ ~isFlagSet(flags, O_CREATE)

\* C12: OpenFile with read-only flags returns what Open(name) returns, the
\* handle of the cache when the cache has the name; with a write or create
\* flag it returns what the store's OpenFile returns; the cache is never
\* touched.
C12_OpenFileRouting ==
    [][(opened' # opened /\ opened'.call = "OpenFile")
        => /\ fast' = fast /\ bf' = bf
           /\ IF ReadOnlyFlags(opened'.flags)
              THEN IF Open(fast, opened'.name).err = Nil
                   THEN /\ opened'.err = Nil
                        /\ opened'.file = Open(fast, opened'.name).file
                   ELSE opened'.err = StoreOpen(slow, opened'.name).err
              ELSE /\ opened'.err
                        = StoreOpenFile(slow, opened'.name, opened'.flags).err
                   /\ opened'.file
                        = StoreOpenFile(slow, opened'.name, opened'.flags).file]_vars

---------------------------------------------------------------------------
(* Properties of the expiring index, checked under SpecIndex.              *)

RECURSIVE TouchedSince(_, _)
\* the items of items touched at or after the time t
TouchedSince(items, t) ==
    IF items = <<>> THEN <<>>
    ELSE IF items[1].time >= t
         THEN <<items[1]>> \o TouchedSince(Tail(items), t)
         ELSE TouchedSince(Tail(items), t)

\* C6: a sweep pass with threshold T = now - ttl removes exactly the
\* entries last touched before T and leaves those touched at or after T.
C6_SweepEvictsOld ==
    pass.ran => expires = TouchedSince(pass.before, pass.threshold)

\* the number of entries of items under the name n
EntriesOf(items, n) == Cardinality({k \in 1..Len(items) : items[k].name = n})

\* C13: after a touch of name n the index has at most one entry per name,
\* the one entry of n carries the time of this touch, and every entry of
\* another name is still there, also when it carries the same time.
C13_NoDuplicates ==
    [][calls'.touches # calls.touches
        => /\ \A m \in IndexNames : EntriesOf(expires', m) <= 1
           /\ \E k \in 1..Len(expires') : expires'[k] = ExpireKey(touched'.time, touched'.name)
           /\ \A k \in 1..Len(expires) :
                 expires[k].name # touched'.name
                    => \E j \in 1..Len(expires') : expires'[j] = expires[k]]_vars

\* C14: expireLoop holds the index lock during a pass only: when it waits
\* in its select or has ended a pass, the lock is not held by it, so a
\* touch can take it.
C14_SweepReleasesLock ==
    sweeper # "pass" => mu # "expireLoop"

\* C15: a Close called once returns normally and closes closeCh, and once
\* Close has been called expireLoop starts no further pass.
C15_CloseStopsSweeper ==
    [][/\ (closed'.called /\ ~closed.called)
            => (closed'.err = Nil /\ closeCh' = "closed")
       /\ (closed.called /\ sweeper = "select") => sweeper' # "pass"]_vars

---------------------------------------------------------------------------
(* Properties of the tree store that reach over several calls, checked     *)
(* under Spec.                                                             *)

\* ReadFile(p) on the store s returns nil and c
ReadsBack(s, p, c) == ReadFile(s, p) = [err |-> Nil, b |-> c]

\* C29: once a WriteFile(p, c) has returned nil, ReadFile(p) returns c in
\* that state and in every later state, whatever calls are made in between:
\* it returns c when the write has returned, and no step takes that away.
C29_WrittenStaysReadable ==
    [][\A p \in TreePaths, c \in Contents :
          /\ (/\ ret'.op = "WriteFile" /\ ret'.err = Nil
              /\ ret'.name = p /\ ret'.content = c)
             => ReadsBack(simple', p, c)
          /\ ReadsBack(simple, p, c) => ReadsBack(simple', p, c)]_vars

\* C30: a WriteFile to the empty path or to a path that ends in "/" does
\* not return nil and leaves the tree and the file counter as they were.
C30_RejectsDirectoryPaths ==
    [][(/\ ret'.op = "WriteFile"
        /\ (ret'.name = <<>> \/ HasSuffix(ret'.name, "/")))
       => (ret'.err # Nil /\ simple' = simple)]_vars

\* a write to "a/" was refused by a store that accepts writes and has the
\* directory "a"; a write to "" was refused too
C30_Witness ==
    /\ ret.op = "WriteFile"
    /\ ret.name = <<"a", "/">>
    /\ ret.err = ErrWriteDir
    /\ ~simple.ro
    /\ NodeAt(simple.root, <<<<"a">>>>) # NilFile
    /\ NodeAt(simple.root, <<<<"a">>>>).isDir
    /\ WriteFile(simple, <<>>, <<88>>).err = Panic

---------------------------------------------------------------------------
(* Properties of the file handles, checked under SpecCursor.               *)

\* the *file behind the handle h of a store s
FileOf(s, h) == Deref(s.root, h.segs)

\* what the next Read of n bytes on the *file f returns
NextRead(f, n) == [n |-> Read(f, n).n, err |-> Read(f, n).err, b |-> Read(f, n).b]

\* C23: a Read or a Seek on one handle leaves what every other open handle
\* returns on its next Read as it was, and a handle that Open returns for a
\* file is at offset 0.
C23_CursorsIndependent ==
    [][/\ \A g \in Handles :
            (/\ ret'.op \in {"Read", "Seek"}
             /\ g # ret'.h
             /\ hnd[g].kind = "file")
            => \A n \in ReadLens :
                   NextRead(FileOf(simple', hnd'[g]), n)
                       = NextRead(FileOf(simple, hnd[g]), n)
       /\ (/\ ret'.op = "Open"
           /\ ret'.err = Nil
           /\ ~FileOf(simple', hnd'[ret'.h]).isDir)
          => FileOf(simple', hnd'[ret'.h]).offset = 0]_vars

\* the bytes of s from offset k on
Suffix(s, k) == IF k >= Len(s) THEN <<>> ELSE SubSeq(s, k + 1, Len(s))

\* the offset that Seek(off, whence) is to leave on the *file f
SeekTarget(f, off, whence) ==
    CASE whence = SeekStart   -> off
      [] whence = SeekCurrent -> f.offset + off
      [] whence = SeekEnd     -> Len(f.content) + off

\* C28: a Seek(off, whence) on a file handle that returns no error leaves
\* the offset at off, at the offset before plus off or at the length of the
\* content plus off, returns that offset, and io.ReadAll of the handle then
\* returns the bytes of the content from that offset on.
C28_SeekThenRead ==
    [][(ret'.op = "Seek" /\ ret'.err = Nil)
       => LET f    == FileOf(simple, hnd[ret'.h])
              g    == FileOf(simple', hnd'[ret'.h])
              want == SeekTarget(f, ret'.args[1], ret'.args[2])
          IN  /\ g.offset = want
              /\ ret'.n = want
              /\ g.content = f.content
              /\ ReadAll(g).err = Nil
              /\ ReadAll(g).b = Suffix(f.content, want)]_vars

\* a Seek(-1, io.SeekCurrent) on a file of two bytes that had been read to
\* its end has left the handle in front of the last byte
C28_Witness ==
    /\ ret.op = "Seek"
    /\ ret.err = Nil
    /\ ret.args = <<0 - 1, SeekCurrent>>
    /\ ret.n = 1
    /\ Len(FileOf(simple, hnd[ret.h]).content) = 2
    /\ ReadAll(FileOf(simple, hnd[ret.h])).b
           = <<FileOf(simple, hnd[ret.h]).content[2]>>

---------------------------------------------------------------------------
(* Properties of Stat, OpenFile and WRFile, checked under SpecFile.        *)

\* C24: OpenFile(p, O_WRONLY) on a file that exists returns a WRFile and no
\* error; a Write to a WRFile leaves what ReadFile of its path returns as
\* it was; after Close, ReadFile of its path returns the bytes written to
\* it.
C24_WriteCursorFinalization ==
    [][/\ (/\ ret'.op = "OpenFile"
           /\ ret'.args = <<O_WRONLY>>
           /\ ~simple.ro
           /\ ReadFile(simple, ret'.name).err = Nil)
          => (ret'.err = Nil /\ hnd'[ret'.h].kind = "WRFile")
       /\ (ret'.op = "Write")
          => ReadFile(simple', hnd[ret'.h].name)
                 = ReadFile(simple, hnd[ret'.h].name)
       /\ (ret'.op = "Close")
          => ReadFile(simple', hnd[ret'.h].name)
                 = [err |-> Nil, b |-> hnd[ret'.h].content]]_vars

\* the proper ancestors of the path p: its prefixes that end in front of a
\* separator, but for the empty one
Ancestors(p) == { SubSeq(p, 1, i - 1) : i \in {j \in 2..Len(p) : p[j] = "/"} }

\* Stat of every proper ancestor of p returns a directory and no error
AncestorsAreDirs(s, p) ==
    \A a \in Ancestors(p) : Stat(s, a).err = Nil /\ Stat(s, a).fi.isDir

\* a WriteFile(p, c) has returned nil: the paths of FilePaths are stored at
\* different places and nothing is removed, so this is when there is a file
\* at the place where WriteFile stores p
Written(s, p) ==
    /\ WellFormedPath(p)
    /\ NodeAt(s.root, WritePath(p)) # NilFile
    /\ ~NodeAt(s.root, WritePath(p)).isDir

\* C27: in every state after a WriteFile(p, c) that returned nil, before
\* and after RO, Stat of every proper ancestor of p returns a directory and
\* no error.
C27_AncestorsMaterialized ==
    \A p \in FilePaths : Written(simple, p) => AncestorsAreDirs(simple, p)

---------------------------------------------------------------------------
(* Properties of Merge, checked under SpecMerge.                           *)

\* the files of the source in walk order
SrcFiles == WalkFiles(from).files

\* the step is a call of Merge
MergeStep == calls'.merges = calls.merges + 1 /\ ret'.op = "Merge"

\* the content Merge is to write for the source file f under the
\* FileTransform argument t
MergedContent(f, t) ==
    IF t = "none" THEN f.file.content
    ELSE fileTransform(t, PathBase(f.path), f.file.content).b

\* the prepend argument as Merge joins it: "/" stands for "", and one
\* leading "." and one leading "/" are not part of it
MergePrefix(prepend) ==
    IF prepend = <<"/">> THEN <<>>
    ELSE TrimPrefix(TrimPrefix(prepend, "."), "/")

\* C25: after a Merge(into, from, prepend) that returned nil, for every
\* file of the source at path p, ReadFile of path.Join(prepend, p) on into
\* returns the source content, or what the FileTransform made of it, and
\* Stat of every proper ancestor of that path returns a directory.
C25_MergeCopiesEverything ==
    [][(MergeStep /\ ret'.err = Nil)
       => \A k \in 1..Len(SrcFiles) :
              LET dest == PathJoin(MergePrefix(ret'.name), SrcFiles[k].path)
              IN  /\ ReadFile(simple', dest)
                         = [err |-> Nil,
                            b   |-> MergedContent(SrcFiles[k], ret'.args[1])]
                  /\ AncestorsAreDirs(simple', dest)]_vars

\* the node of the store s at the place where WriteFile stores the path p
Stored(s, p) == NodeAt(s.root, WritePath(p))

\* C26: a Merge that returns the error of a read, of the FileTransform or
\* of a write has stopped at the file that failed: the files in front of it
\* in walk order are in the destination with their content, the error is
\* the one of that file, exactly the files in front of it were added, and
\* the place of every later file is as it was, unless a file in front of it
\* was written there.  A Merge whose walk overflows the stack returns
\* nothing.
C26_MergeFailsFast ==
    [][(MergeStep /\ ret'.err \notin {Nil, ErrPrepend, StackOverflow})
       => LET t       == ret'.args[1]
              pre     == MergePrefix(ret'.name)
              Dest(i) == PathJoin(pre, SrcFiles[i].path)
              k       == simple'.items - simple.items + 1
          IN  /\ k \in 1..Len(SrcFiles)
              /\ \A i \in 1..(k - 1) :
                     /\ Stored(simple', Dest(i)) # NilFile
                     /\ ~Stored(simple', Dest(i)).isDir
                     /\ Stored(simple', Dest(i)).content
                            = MergedContent(SrcFiles[i], t)
              /\ ret'.err
                     = MergeFile(simple', from, SrcFiles[k].path, pre, t).err
              /\ \A i \in k..Len(SrcFiles) :
                     (\A j \in 1..(k - 1) : WritePath(Dest(j)) # WritePath(Dest(i)))
                     => Stored(simple', Dest(i)) = Stored(simple, Dest(i))]_vars

\* a Merge of the three source files under "c/" has failed on the second,
\* "a", whose destination "c/a" was there: the first, ".a", is copied and
\* the third, "b/a", is not
C26_Witness ==
    /\ ret.op = "Merge"
    /\ ret.err = ErrExist
    /\ Len(SrcFiles) = 3
    /\ NodeAt(simple.root, <<<<"c">>, <<".", "a">>>>) # NilFile
    /\ NodeAt(simple.root, <<<<"c">>, <<".", "a">>>>).content
           = MergedContent(SrcFiles[1], ret.args[1])
    /\ NodeAt(simple.root, <<<<"c">>, <<"a">>>>).content = <<9>>
    /\ NodeAt(simple.root, <<<<"c">>, <<"b">>>>) = NilFile

---------------------------------------------------------------------------
(* Properties of the files of the disk cache tier, checked under           *)
(* SpecDiskFiles.                                                          *)

\* C21: when WriteFile(name, content) has returned nil, ReadFile(name) with
\* the same name returns nil and exactly content.
C21_DiskRoundTrip ==
    (dcall.pc = "done" /\ dcall.op = "WriteFile" /\ dcall.err = Nil)
    => LET r == DiskReadFile(dfs, osdisk, dcall.name)
       IN  /\ r.err = Nil
           /\ OsReadAll(osdisk, r.path) = [err |-> Nil, b |-> dcall.content]

\* the rules of the list that apply to the name: those without a pattern
\* and those whose pattern matches it
RulesFor(rules, name) ==
    {i \in 1..Len(rules) :
        rules[i].regex = NoRegex \/ MatchString(rules[i].regex, name)}

\* C22: a WriteFile(name, content, perm) writes with the options of the
\* first rule of the configured list that has no pattern or whose pattern
\* matches name, whatever the rules after it, and with the option made of
\* perm when no rule applies.
C22_RuleSelection ==
    (dcall.op = "WriteFile")
    => LET applying == RulesFor(dfs.rules, dcall.name)
       IN  dcall.opts
               = IF applying = {} THEN <<OsFileMode(dcall.perm)>>
                 ELSE dfs.rules[CHOOSE i \in applying :
                                    \A j \in applying : i <= j].options

---------------------------------------------------------------------------
(* Properties of the races of the expiring index, checked under SpecIndex. *)

\* the names of the items of the index
NamesIn(items) == {items[i].name : i \in 1..Len(items)}

\* the step is a pass of expireLoop
PassStep == sweeper = "pass" /\ sweeper' = "lock"

\* C31: a name whose touch took the lock before a pass did, and whose
\* recorded time is not before the threshold of that pass, is in the index
\* when the pass has finished.
C31_TouchWinsRace ==
    [][PassStep
       => \A i \in 1..Len(expires) :
              expires[i].time >= now - ExpireDuration
              => expires[i].name \in NamesIn(expires')]_vars

---------------------------------------------------------------------------
(* Properties of the pass of expireLoop on the files, checked under        *)
(* SpecDiskFiles.                                                          *)

\* C32: a pass of expireLoop changes the index only, and only by removing
\* items: the files of the operating system and their contents are after
\* the pass what they were before it, and every name whose file is there
\* can be opened after the pass, evicted or not: os.Open finds the file and
\* the lock that Open takes for its touch is free.
C32_EvictionIndexOnly ==
    [][PassStep
       => /\ osdisk' = osdisk
          /\ dfs' = dfs
          /\ NamesIn(expires') \subseteq NamesIn(expires)
          /\ \A n \in DiskNames :
                 DiskOpen(dfs, osdisk, n).err = Nil
                 => /\ DiskOpen(dfs', osdisk', n).err = Nil
                    /\ mu' = "free"]_vars

---------------------------------------------------------------------------
(* Properties of Open on paths without a node, checked under SpecPearson.  *)

\* C33: in every mode of the store, Open of a path that has no node
\* returns fs.ErrNotExist, and an Open that returns no error returns the
\* node of its path, never the file of another path and never a nil file.
C33_OpenMissing ==
    \A p \in PearsonPaths :
        LET o    == Open(simple, p)
            node == NodeAt(simple.root, Split(p))
        IN  /\ node = NilFile => o.err = ErrNotExist
            /\ o.err = Nil => (o.file # NilFile /\ o.file = node)

---------------------------------------------------------------------------
(* Properties of failing writes of the tree store, checked under Spec.     *)

\* C34: a WriteFile that returns an error, whatever the error, leaves the
\* tree and the file counter exactly as they were before the call; no
\* directory of the path is left behind.
C34_FailedWriteIsAtomic ==
    [][(ret'.op = "WriteFile" /\ ret'.err # Nil)
       => (simple'.root = simple.root /\ simple'.items = simple.items)]_vars

\* a write to "/a/b/c" has failed because "a" is a file, in a store that
\* accepts writes: the directories "b" below it were not made
C34_Witness ==
    /\ ret.op = "WriteFile"
    /\ ret.name = <<"/", "a", "/", "b", "/", "c">>
    /\ ret.err = ErrElemNotDir
    /\ ~simple.ro
    /\ NodeAt(simple.root, <<<<"a">>>>) # NilFile
    /\ NodeAt(simple.root, <<<<"a">>>>).objects = <<>>

---------------------------------------------------------------------------
(* Properties of the contents of the cache, checked under SpecValidity.    *)

\* the contents the slow tier has held for the name n up to this state
HeldBySlow(n) == IF slow[n] = NoBlob THEN {} ELSE {slow[n]}

\* C35: in every state, what the fast tier returns for a name is a content
\* the slow tier has held for that name, and what a ReadFile of the
\* coordinator has returned for a name is a content the slow tier has held
\* for that name.
C35_CacheValid ==
    /\ \A n \in CacheNames :
           ReadFile(fast, n).err = Nil => ReadFile(fast, n).b \in HeldBySlow(n)
    /\ \A p \in Callers :
           (rd[p].pc = "done" /\ rd[p].err = Nil)
           => rd[p].b \in HeldBySlow(rd[p].name)

---------------------------------------------------------------------------
(* Properties of the index keys of the disk cache tier, checked under      *)
(* SpecDiskFiles.                                                          *)

\* the key strings of the touches in the sequence touch
KeysOf(touch) == {touch[i] : i \in 1..Len(touch)}

\* C36: an Open, an OpenFile or a ReadFile of a name that succeeds right
\* after a WriteFile of the same name has returned nil records its touches
\* under the key that the WriteFile recorded its touch under, and under no
\* other.
C36_OneIndexKey ==
    [][(/\ dcall.op = "WriteFile" /\ dcall.pc = "done" /\ dcall.err = Nil
        /\ dcall'.op \in {"Open", "OpenFile", "ReadFile"}
        /\ dcall'.name = dcall.name
        /\ dcall'.err = Nil)
       => KeysOf(dcall'.pending) = {touched.name}]_vars

---------------------------------------------------------------------------
(* Properties of OpenFile on paths without a node, checked under SpecFile. *)

\* C37: an OpenFile for writing, on a store that accepts writes, of a path
\* that has no node does not panic; with O_CREATE it returns nil and a
\* WRFile and the path then holds an empty file; without O_CREATE it
\* returns fs.ErrNotExist and leaves the tree as it was.
C37_OpenFileMissing ==
    [][(/\ ret'.op = "OpenFile"
        /\ ~simple.ro
        /\ isFlagSet(ret'.args[1], O_WRONLY)
        /\ Open(simple, ret'.name).err # Nil
        /\ Stored(simple, ret'.name) = NilFile)
       => /\ ret'.err # Panic
          /\ isFlagSet(ret'.args[1], O_CREATE)
             => /\ ret'.err = Nil
                /\ hnd'[ret'.h].kind = "WRFile"
                /\ Stored(simple', ret'.name) # NilFile
                /\ ~Stored(simple', ret'.name).isDir
                /\ Stored(simple', ret'.name).content = <<>>
          /\ ~isFlagSet(ret'.args[1], O_CREATE)
             => (ret'.err = ErrNotExist /\ simple' = simple)]_vars

---------------------------------------------------------------------------
(* Properties of the errors of Seek and Read, checked under SpecCursorDir. *)

\* what the claim says of a Seek step: a whence that is none of the three
\* returns an error and leaves the offset; a Seek to an offset in front of
\* the start returns an error and leaves the offset; a Seek to an offset
\* behind the end returns nil and sets the offset
SeekErrorCases ==
    ret'.op = "Seek"
    => LET f      == FileOf(simple, hnd[ret'.h])
           g      == FileOf(simple', hnd'[ret'.h])
           off    == ret'.args[1]
           whence == ret'.args[2]
       IN  IF whence \notin {SeekStart, SeekCurrent, SeekEnd}
           THEN ret'.err # Nil /\ g.offset = f.offset
           ELSE /\ SeekTarget(f, off, whence) < 0
                   => (ret'.err # Nil /\ g.offset = f.offset)
                /\ SeekTarget(f, off, whence) > Len(f.content)
                   => (ret'.err = Nil /\ g.offset = SeekTarget(f, off, whence))

\* a Read on a directory returns an error and no bytes
ReadDirCase ==
    (ret'.op = "Read" /\ FileOf(simple, hnd[ret'.h]).isDir)
    => (ret'.err \notin {Nil, EOF} /\ ret'.n = 0)

\* the step is a Read of at least least bytes on the handle of a file that
\* the step before it, a Seek that returned nil, left behind the end
ReadBehindEnd(least) ==
    /\ ret.op = "Seek" /\ ret.err = Nil
    /\ ret'.op = "Read" /\ ret'.h = ret.h
    /\ ret'.args[1] >= least
    /\ ~FileOf(simple, hnd[ret.h]).isDir
    /\ FileOf(simple, hnd[ret.h]).offset > Len(FileOf(simple, hnd[ret.h]).content)

\* C38 as the claim states it: the error cases of Seek and of Read on a
\* directory, and after a Seek behind the end the next Read, whatever the
\* length of its buffer, returns io.EOF and 0 bytes.
C38_SeekReadErrorsAsStated ==
    [][/\ SeekErrorCases
       /\ ReadDirCase
       /\ ReadBehindEnd(0) => (ret'.err = EOF /\ ret'.n = 0)]_vars

\* C38, amended: a Seek to an offset in front of the start, for each
\* whence, and a Seek with a whence that is none of the three return an
\* error and leave the offset; a Seek behind the end returns nil, and the
\* next Read into a buffer that is not empty returns io.EOF and 0 bytes; a
\* Read on a directory returns an error.
C38_SeekReadErrors ==
    [][/\ SeekErrorCases
       /\ ReadDirCase
       /\ ReadBehindEnd(1) => (ret'.err = EOF /\ ret'.n = 0)]_vars

\* a Read into a buffer of two bytes has returned io.EOF on a file of one
\* byte whose handle is at offset 3
C38_Witness ==
    /\ ret.op = "Read"
    /\ ret.args = <<2>>
    /\ ret.err = EOF
    /\ ret.n = 0
    /\ Len(FileOf(simple, hnd[ret.h]).content) = 1
    /\ FileOf(simple, hnd[ret.h]).offset = 3

---------------------------------------------------------------------------
(* Properties of the peer picker, checked under SpecPeers.                 *)

\* the strings of a list, as a set
PeerSet(list) == { list[i] : i \in 1..Len(list) }

\* C39: when the set of the discovered peers that isPeer accepts differs
\* from the set of the peers held, setPeers calls the pool's Set exactly
\* once and holds the accepted peers afterwards; when the two sets are the
\* same, in whatever order the discovery reports the peers, setPeers does
\* not call Set.
C39_PeerListUpdate ==
    lan.called
    => IF PeerSet(AcceptedPeers(lan.discovered)) # PeerSet(lan.held)
       THEN /\ lan.sets = 1
            /\ PeerSet(lan.l.peers) = PeerSet(AcceptedPeers(lan.discovered))
            /\ lan.l.pool = lan.l.peers
       ELSE lan.sets = 0

=============================================================================
